---------------------------- MODULE Spec2Model ----------------------------
(***************************************************************************)
(* Model of the Waveshare 4.2" e-ink driver (src/modules/display/eink.py):  *)
(* the bus transport (_send), the handshake (_wait), the panel operations   *)
(* (wake, display, clear, sleep, _reset, _init_lut) and the framebuffer     *)
(* encoder (_get_buffer, _get_masks and the split loop of display).         *)
(*                                                                         *)
(* The panel is 400x300 in the source.  The model keeps the code's loops    *)
(* and index arithmetic and runs them on a panel of WIDTH x HEIGHT pixels,  *)
(* WIDTH a multiple of 4 and WIDTH*HEIGHT a multiple of 8 as in the source. *)
(***************************************************************************)
EXTENDS Integers, Sequences, FiniteSets, TLC

\* Number of 4-pixel groups in a row of the modelled panel (100 in the source).
WidthGroups == 2
\* Half the number of rows of the modelled panel (150 in the source).
HalfRows == 1

\* eink.py:22  _WIDTH, _HEIGHT = 400, 300  (scaled: see WidthGroups, HalfRows)
WIDTH == 4 * WidthGroups
HEIGHT == 2 * HalfRows

\* The shades of the demo adapter (demo.py:17), chosen for a screen image.
ShadeOfDemo == <<0, 128, 176, 255>>

\* eink.py:25  SHADE = [0x00, 0x40, 0x80, 0xC0]
SHADE == <<0, 64, 128, 192>>
BLACK == SHADE[1]
DARK == SHADE[2]
LIGHT == SHADE[3]
WHITE == SHADE[4]

(***************************************************************************)
(* Python's integer operators on non-negative integers.                     *)
(***************************************************************************)
RECURSIVE BitAnd(_, _)
BitAnd(a, b) ==
    IF a = 0 \/ b = 0 THEN 0
    ELSE (a % 2) * (b % 2) + 2 * BitAnd(a \div 2, b \div 2)

RECURSIVE BitOr(_, _)
BitOr(a, b) ==
    IF a = 0 THEN b
    ELSE IF b = 0 THEN a
    ELSE (IF (a % 2) + (b % 2) > 0 THEN 1 ELSE 0) + 2 * BitOr(a \div 2, b \div 2)

BitXor1(s) == IF s = 0 THEN 1 ELSE 0

Shl(a, n) == a * (2 ^ n)

Shr(a, n) == a \div (2 ^ n)

(***************************************************************************)
(* Images.  An image is a record [kind, w, h, px] with px a function of     *)
(* <<x, y>> giving the 8-bit value of a mode "L" pixel; NoImage is Python's *)
(* None passed in its place.                                               *)
(***************************************************************************)
NoImage == [kind |-> "None"]

NoError == "none"
IndexError == "IndexError"
TypeError == "TypeError"
IOError == "IOError"

\* getpixel reading a negative x from the end of the row before (the last
\* row before row 0), as in a flat pixel array.
GetPixelRowBefore(image, x, y) ==
    LET xx == IF x < 0 THEN image.w + x ELSE x
        yr == IF x < 0 THEN y - 1 ELSE y
        yy == IF yr < 0 THEN image.h + yr ELSE yr
    IN  IF xx < 0 \/ xx >= image.w \/ yy < 0 \/ yy >= image.h
        THEN [error |-> IndexError, v |-> 0]
        ELSE [error |-> NoError, v |-> image.px[<<xx, yy>>]]

\* Image.getpixel((x, y)) as called at eink.py:310-313: Pillow counts a
\* negative coordinate from the far edge and raises IndexError outside.
GetPixel(image, x, y) ==
    LET xx == IF x < 0 THEN image.w + x ELSE x
        yy == IF y < 0 THEN image.h + y ELSE y
    IN  IF xx < 0 \/ xx >= image.w \/ yy < 0 \/ yy >= image.h
        THEN [error |-> IndexError, v |-> 0]
        ELSE [error |-> NoError, v |-> image.px[<<xx, yy>>]]

\* The packed byte with the first sample in the lowest bits.
PackGroupLowFirst(image, i, j) ==
    LET p3 == GetPixel(image, i - 3, j)
        p2 == GetPixel(image, i - 2, j)
        p1 == GetPixel(image, i - 1, j)
        p0 == GetPixel(image, i - 0, j)
    IN  IF IndexError \in {p3.error, p2.error, p1.error, p0.error}
        THEN [error |-> IndexError, v |-> 0]
        ELSE [error |-> NoError,
              v |-> BitOr(BitOr(BitOr(Shr(BitAnd(p3.v, 192), 6),
                                      Shr(BitAnd(p2.v, 192), 4)),
                                Shr(BitAnd(p1.v, 192), 2)),
                          Shr(BitAnd(p0.v, 192), 0))]

\* The packed byte of the group that starts at column i.
PackGroupAligned(image, i, j) ==
    LET p3 == GetPixel(image, i + 0, j)
        p2 == GetPixel(image, i + 1, j)
        p1 == GetPixel(image, i + 2, j)
        p0 == GetPixel(image, i + 3, j)
    IN  IF IndexError \in {p3.error, p2.error, p1.error, p0.error}
        THEN [error |-> IndexError, v |-> 0]
        ELSE [error |-> NoError,
              v |-> BitOr(BitOr(BitOr(Shr(BitAnd(p3.v, 192), 0),
                                      Shr(BitAnd(p2.v, 192), 2)),
                                Shr(BitAnd(p1.v, 192), 4)),
                          Shr(BitAnd(p0.v, 192), 6))]

\* The byte written by one pass of the inner loop of _get_buffer.
PackGroup(image, i, j) ==
    LET p3 == GetPixel(image, i - 3, j)
        p2 == GetPixel(image, i - 2, j)
        p1 == GetPixel(image, i - 1, j)
        p0 == GetPixel(image, i - 0, j)
    IN  IF IndexError \in {p3.error, p2.error, p1.error, p0.error}
        THEN [error |-> IndexError, v |-> 0]
        ELSE [error |-> NoError,
              v |-> BitOr(BitOr(BitOr(Shr(BitAnd(p3.v, 192), 0),
                                      Shr(BitAnd(p2.v, 192), 2)),
                                Shr(BitAnd(p1.v, 192), 4)),
                          Shr(BitAnd(p0.v, 192), 6))]

\* An element of a numpy.empty array that no statement has assigned yet.
Uninit == -1

BufferSize == (WIDTH * HEIGHT) \div 4

\* The loops of _get_buffer storing the byte of a group at half its index.
RECURSIVE PackLoopHalfIndex(_, _, _)
PackLoopHalfIndex(image, buffer, n) ==
    IF n >= HEIGHT * WidthGroups THEN [error |-> NoError, buffer |-> buffer]
    ELSE LET j == n \div WidthGroups
             i == 4 * (n % WidthGroups)
             b == PackGroup(image, i, j)
         IN  IF b.error # NoError THEN [error |-> b.error, buffer |-> buffer]
             ELSE PackLoopHalfIndex(image,
                                    [buffer EXCEPT ![(i + j * WIDTH) \div 8] = b.v],
                                    n + 1)

\* The loops of _get_buffer, pass n = 0, 1, ... in the order the code runs them:
\* j in range(HEIGHT) outside, i in range(0, WIDTH, 4) inside.
RECURSIVE PackLoop(_, _, _)
PackLoop(image, buffer, n) ==
    IF n >= HEIGHT * WidthGroups THEN [error |-> NoError, buffer |-> buffer]
    ELSE LET j == n \div WidthGroups
             i == 4 * (n % WidthGroups)
             b == PackGroup(image, i, j)
         IN  IF b.error # NoError THEN [error |-> b.error, buffer |-> buffer]
             ELSE PackLoop(image,
                           [buffer EXCEPT ![(i + j * WIDTH) \div 4] = b.v],
                           n + 1)

\* Display._get_buffer: the packed buffer (a function on 0..BufferSize-1), or
\* the IndexError of a pixel read outside the image.
GetBuffer(image) ==
    PackLoop(image, [n \in 0 .. BufferSize - 1 |-> Uninit], 0)

\* What _get_masks returns when no branch of its if/elif chain is taken.
NoMasks == <<>>

\* _get_masks with the pairs of LIGHT and DARK exchanged.
GetMasksSwapped(data) ==
    LET masked == BitAnd(data, 192)
    IN  CASE masked = 192 -> <<1, 1>>
          [] masked = 128 -> <<0, 1>>
          [] masked = 64 -> <<1, 0>>
          [] masked = 0 -> <<0, 0>>
          [] OTHER -> NoMasks

\* Display._get_masks; NoMasks (Python's None) when no branch is taken.
GetMasks(data) ==
    LET masked == BitAnd(data, 192)
    IN  CASE masked = 192 -> <<1, 1>>
          [] masked = 128 -> <<1, 0>>
          [] masked = 64 -> <<0, 1>>
          [] masked = 0 -> <<0, 0>>
          [] OTHER -> NoMasks

\* chunk <<= 2 on a numpy.uint8 scalar: the result is widened to a 64-bit
\* integer by numpy releases that promote by value (wide) and stays a uint8,
\* dropping the high bits, in releases that keep the scalar's type.
ShiftChunk(chunk, wide) ==
    IF wide THEN Shl(chunk, 2) ELSE Shl(chunk, 2) % 256

Max3(a, b, c) ==
    IF a >= b /\ a >= c THEN a ELSE IF b >= c THEN b ELSE c

\* The k loop pass without the test that skips the shift after the last pair.
SplitPassAlwaysShift(acc, j, k, wide) ==
    LET m1 == GetMasks(acc.chunk)
        c1 == ShiftChunk(acc.chunk, wide)
        m2 == GetMasks(c1)
        c2 == ShiftChunk(c1, wide)
    IN  IF acc.err \/ m1 = NoMasks \/ m2 = NoMasks
        THEN [acc EXCEPT !.err = TRUE]
        ELSE [byte1 |-> Shl(BitOr(Shl(BitOr(acc.byte1, m1[1]), 1), m2[1]), 1),
              byte2 |-> Shl(BitOr(Shl(BitOr(acc.byte2, m1[2]), 1), m2[2]), 1),
              chunk |-> c2,
              err |-> FALSE,
              widest |-> Max3(acc.widest, acc.chunk, c1)]

\* One pass of the k loop of display (eink.py:128-144) on the accumulator
\* acc = [byte1, byte2, chunk, err, widest]; err: _get_masks returned None,
\* widest: the largest argument _get_masks was given.
SplitPass(acc, j, k, wide) ==
    LET m1 == GetMasks(acc.chunk)
        c1 == ShiftChunk(acc.chunk, wide)
        m2 == GetMasks(c1)
        c2 == ShiftChunk(c1, wide)
    IN  IF acc.err \/ m1 = NoMasks \/ m2 = NoMasks
        THEN [acc EXCEPT !.err = TRUE]
        ELSE LET a1 == Shl(BitOr(acc.byte1, m1[1]), 1)
                 b1 == Shl(BitOr(acc.byte2, m1[2]), 1)
                 a2 == BitOr(a1, m2[1])
                 b2 == BitOr(b1, m2[2])
                 last == (j = 1 /\ k = 1)
             IN  [byte1 |-> IF last THEN a2 ELSE Shl(a2, 1),
                  byte2 |-> IF last THEN b2 ELSE Shl(b2, 1),
                  chunk |-> c2,
                  err |-> FALSE,
                  widest |-> Max3(acc.widest, acc.chunk, c1)]

\* The j loop body reading the second packed byte of the pair first.
SplitChunkOddFirst(acc, buffer, i, j, wide) ==
    SplitPass(SplitPass([acc EXCEPT !.chunk = buffer[i * 2 + 1 - j]], j, 0, wide),
              j, 1, wide)

\* The j loop body: chunk = buffer[i * 2 + j], then k = 0, 1.
SplitChunk(acc, buffer, i, j, wide) ==
    SplitPass(SplitPass([acc EXCEPT !.chunk = buffer[i * 2 + j]], j, 0, wide),
              j, 1, wide)

\* The body of the i loop of display: the bytes stored in data1[i], data2[i].
SplitByte(buffer, i, wide) ==
    SplitChunk(SplitChunk([byte1 |-> 0, byte2 |-> 0, chunk |-> 0,
                           err |-> FALSE, widest |-> 0],
                          buffer, i, 0, wide),
               buffer, i, 1, wide)

PlaneSize == (WIDTH * HEIGHT) \div 8

\* The i loop of display (eink.py:123-147) from pass i on; data1[i] and
\* data2[i] are element i + 1 of the sequences.
RECURSIVE SplitLoop(_, _, _, _)
SplitLoop(buffer, wide, i, planes) ==
    IF i >= PlaneSize THEN planes
    ELSE LET split == SplitByte(buffer, i, wide)
         IN  IF split.err
             THEN [error |-> TypeError, data1 |-> <<>>, data2 |-> <<>>]
             ELSE SplitLoop(buffer, wide, i + 1,
                            [error |-> NoError,
                             data1 |-> Append(planes.data1, split.byte1),
                             data2 |-> Append(planes.data2, split.byte2)])

\* The encoding part of display (eink.py:117-147): TypeError for an absent
\* image (or for masks that are None), IndexError from _get_buffer, else the
\* two planes.
Encode(image, wide) ==
    IF image.kind = "None" THEN [error |-> TypeError, data1 |-> <<>>, data2 |-> <<>>]
    ELSE LET packed == GetBuffer(image)
         IN  IF packed.error # NoError
             THEN [error |-> packed.error, data1 |-> <<>>, data2 |-> <<>>]
             ELSE SplitLoop(packed.buffer, wide, 0,
                            [error |-> NoError, data1 |-> <<>>, data2 |-> <<>>])

\* eink.py:47  _EMPTY = numpy.full(_WIDTH * _HEIGHT // 8, WHITE, dtype=numpy.uint8)
EMPTY == [t \in 1 .. PlaneSize |-> WHITE]

(***************************************************************************)
(* Image contents.                                                         *)
(***************************************************************************)
Picture(w, h, px) == [kind |-> "L", w |-> w, h |-> h, px |-> px]

Pixels(w, h) == (0 .. w - 1) \X (0 .. h - 1)

Uniform(w, h, v) == Picture(w, h, [c \in Pixels(w, h) |-> v])

WhiteNoise(w, h) ==
    Picture(w, h, [c \in Pixels(w, h) |-> 192 + ((7 * c[1] + 13 * c[2]) % 64)])

BlackNoise(w, h) ==
    Picture(w, h, [c \in Pixels(w, h) |-> (7 * c[1] + 13 * c[2]) % 64])

Ramp(w, h) ==
    Picture(w, h, [c \in Pixels(w, h) |-> (64 * c[1] + 64 * c[2] + 17) % 256])

Mosaic(w, h) ==
    Picture(w, h, [c \in Pixels(w, h) |-> (37 * c[1] + 101 * c[2] + 5) % 256])

\* The images handed to display, by name: of the panel's size ...
PanelImages ==
    {"black", "dark", "light", "white", "white255", "whitenoise", "blacknoise",
     "ramp", "mosaic"}

\* ... of another size, and None.
OtherImages == {"narrow", "short", "wide", "tall", "large", "tiny", "none"}

Images == PanelImages \cup OtherImages

ImageOf(name) ==
    CASE name = "black" -> Uniform(WIDTH, HEIGHT, BLACK)
      [] name = "dark" -> Uniform(WIDTH, HEIGHT, DARK)
      [] name = "light" -> Uniform(WIDTH, HEIGHT, LIGHT)
      [] name = "white" -> Uniform(WIDTH, HEIGHT, WHITE)
      [] name = "white255" -> Uniform(WIDTH, HEIGHT, 255)
      [] name = "whitenoise" -> WhiteNoise(WIDTH, HEIGHT)
      [] name = "blacknoise" -> BlackNoise(WIDTH, HEIGHT)
      [] name = "ramp" -> Ramp(WIDTH, HEIGHT)
      [] name = "mosaic" -> Mosaic(WIDTH, HEIGHT)
      [] name = "narrow" -> Uniform(WIDTH - 1, HEIGHT, 255)
      [] name = "short" -> Uniform(WIDTH, HEIGHT - 1, 255)
      [] name = "wide" -> Ramp(WIDTH + 1, HEIGHT)
      [] name = "tall" -> Ramp(WIDTH, HEIGHT + 1)
      [] name = "large" -> Mosaic(WIDTH + 1, HEIGHT + 1)
      [] name = "tiny" -> Uniform(2, 1, 0)
      [] OTHER -> NoImage

(***************************************************************************)
(* The commands of the panel operations, in program order.                  *)
(***************************************************************************)
Cmd(command, data) == [command |-> command, data |-> data]

\* wake with Panel Settings sent before Power ON.
WakeSendsReordered ==
    << Cmd(1, <<3, 0, 43, 43, 19>>),
       Cmd(6, <<23, 23, 23>>),
       Cmd(0, <<63>>),
       Cmd(4, <<>>),
       Cmd(48, <<60>>),
       Cmd(97, <<1, 144, 1, 44>>),
       Cmd(130, <<18>>),
       Cmd(80, <<151>>) >>

\* eink.py:87-94
WakeSends ==
    << Cmd(1, <<3, 0, 43, 43, 19>>),
       Cmd(6, <<23, 23, 23>>),
       Cmd(4, <<>>),
       Cmd(0, <<63>>),
       Cmd(48, <<60>>),
       Cmd(97, <<1, 144, 1, 44>>),
       Cmd(130, <<18>>),
       Cmd(80, <<151>>) >>

Zeros(n) == [t \in 1 .. n |-> 0]

\* eink.py:212-245
InitLutSends ==
    << Cmd(32, <<0, 10, 0, 0, 0, 1, 96, 20, 20, 0, 0, 1, 0, 20, 0, 0,
                 0, 1, 0, 19, 10, 1, 0, 1>> \o Zeros(18)),
       Cmd(33, <<64, 10, 0, 0, 0, 1, 144, 20, 20, 0, 0, 1, 16, 20, 10, 0,
                 0, 1, 160, 19, 1, 0, 0, 1>> \o Zeros(18)),
       Cmd(34, <<64, 10, 0, 0, 0, 1, 144, 20, 20, 0, 0, 1, 0, 20, 10, 0,
                 0, 1, 153, 12, 1, 3, 4, 1>> \o Zeros(18)),
       Cmd(35, <<64, 10, 0, 0, 0, 1, 144, 20, 20, 0, 0, 1, 0, 20, 10, 0,
                 0, 1, 153, 11, 4, 4, 1, 1>> \o Zeros(18)),
       Cmd(36, <<128, 10, 0, 0, 0, 1, 144, 20, 20, 0, 0, 1, 32, 20, 10, 0,
                 0, 1, 80, 19, 1, 0, 0, 1>> \o Zeros(18)) >>

\* display with the refresh sent before the second plane.
DisplaySendsRefreshEarly(enc) ==
    << Cmd(16, enc.data1), Cmd(18, <<>>), Cmd(19, enc.data2) >>

\* eink.py:149-151
DisplaySends(enc) ==
    << Cmd(16, enc.data1), Cmd(19, enc.data2), Cmd(18, <<>>) >>

\* eink.py:166-168
ClearSends ==
    << Cmd(16, EMPTY), Cmd(19, EMPTY), Cmd(18, <<>>) >>

\* sleep sending the deep-sleep command before the power-off.
SleepSendsDeepSleepFirst ==
    << Cmd(7, <<165>>), Cmd(2, <<>>) >>

\* eink.py:183-184
SleepSends ==
    << Cmd(2, <<>>), Cmd(7, <<165>>) >>

(***************************************************************************)
(* State.                                                                  *)
(***************************************************************************)
VARIABLES
    op,       \* the public operation called last: "none", "wake", "display", "clear", "sleep"
    pc,       \* the statement the driver is at; "idle" between calls
    result,   \* of the call: "running", "ok", or the exception it raised
    img,      \* the argument of the display call (the name of the image)
    todo,     \* the _send calls the operation has still to make
    cmd,      \* _send's arguments: command
    data,     \* _send's arguments: data
    idx,      \* position of the for loop of _send in data
    state,    \* _wait's local variable
    mode,     \* level of the DC line (_MODE)
    enable,   \* level of the CS line (_ENABLE)
    reset,    \* level of the RST line (_RESET)
    led,      \* level of the status LED (_LED)
    busy,     \* level of the BUSY line, driven by the panel: 0 while it is busy
    device,   \* "alive", or "dead": the panel no longer answers
    events,   \* line and bus events of the current transaction, in order
    sent,     \* the transactions of the current call, as read off the bus
    pulse,    \* the levels driven on RST in the current call
    owed,     \* transactions finished on the bus minus handshake waits finished
    tick,     \* parity of the reads of BUSY made by the current _wait
    encIn,    \* encoder run on its own: the pixel value, its place, the numpy rule
    encBuf,   \* encoder run on its own: what _get_buffer returned
    encOut,   \* encoder run on its own: the planes
    encPc,    \* encoder run on its own: "off", "in", "packed", "split"
    log,      \* RST, DC and CS outputs, bytes written and _reset's delays of the current call
    used,     \* the pins and the bus the current call (or __init__) has driven, read or written
    life,     \* the lifecycle operation that returned last: "none", "wake", "sleep"
    shown,    \* the image and the planes of the first display of a reference image that returned
    pins,     \* the direction each GPIO pin was set up with
    bus,      \* the SPI device: "none" before it is opened, "open", "closed"
    gpiomem,  \* /sys/bus/platform/drivers/gpiomem-bcm2835 exists
    woken,    \* demo adapter: _woken
    saved,    \* demo adapter: the content of res/demo.png
    resdir,   \* demo adapter: res/ exists
    demoOp,   \* demo adapter: the method called last
    demoArg,  \* demo adapter: the argument of the display call (the name of the image)
    demoResult, \* demo adapter: "ok", or the exception the call raised
    calendars, \* calendar: _calendars, the configured calendar ids in order
    agenda,   \* calendar: the upcoming events the service holds for each calendar id
    calPc,    \* calendar: "idle", or "query": list_events is in its for loop
    count,    \* calendar: the argument of list_events
    fetched,  \* calendar: the values of list_events' local dict events, in insertion order
    asked,    \* calendar: the requests list_events has made to the service in this call
    listed,   \* calendar: what list_events returned, or the exception it raised
    upd,      \* organiser: for each thread, the execution of update() it is running
    panel,    \* organiser: what the panel was last told: "none", "awake", "asleep", "unknown"
    mainPc,   \* main.py: "init", "update", "scheduling", "crashed"
    skipped,  \* main.py: the scheduler has skipped a run of the job
    splitIn,  \* _split: its arguments, the words of text by width and length
    words,    \* _split: local words
    lines,    \* _split: local lines
    index,    \* _split: local index
    splitPc   \* _split: "off", "loop", "done"

vars == << op, pc, result, img, todo, cmd, data, idx, state, mode, enable, reset,
           led, busy, device, events, sent, pulse, owed, tick,
           encIn, encBuf, encOut, encPc, log, used, life, shown, pins, bus, gpiomem,
           woken, saved, resdir, demoOp, demoArg, demoResult,
           calendars, agenda, calPc, count, fetched, asked, listed,
           upd, panel, mainPc, skipped, splitIn, words, lines, index, splitPc >>

lineVars == << mode, enable, reset, led >>
encVars == << encIn, encBuf, encOut, encPc >>
sendVars == << cmd, data, idx >>
setupVars == << pins, bus, gpiomem >>
demoVars == << woken, saved, resdir, demoOp, demoArg, demoResult >>
calVars == << calendars, agenda, calPc, count, fetched, asked, listed >>
mainVars == << upd, panel, mainPc, skipped >>
splitVars == << splitIn, words, lines, index, splitPc >>
orgVars == << mainVars, splitVars >>

Running == "running"

\* The threads of main.py: the main thread and two workers of the
\* scheduler's pool.
Threads == {"main", "pool1", "pool2"}

\* No execution of update().
NoUpdate == [pc |-> "off", depth |-> 0, calls |-> <<>>, agenda |-> <<>>, error |-> NoError]

\* _split has no arguments yet.
NoSplitInput == [text |-> <<>>, length |-> 0]

\* organiser.py, main.py: no Organiser instance, nothing running.
NoOrganiser ==
    /\ upd = [t \in Threads |-> NoUpdate]
    /\ panel = "none"
    /\ mainPc = "init"
    /\ skipped = FALSE
    /\ splitIn = NoSplitInput
    /\ words = <<>>
    /\ lines = <<>>
    /\ index = 0
    /\ splitPc = "off"

\* google_calendar.py: no Calendar instance, no call of list_events.
NoCalendar ==
    /\ calendars = <<>>
    /\ agenda = <<>>
    /\ calPc = "idle"
    /\ count = 0
    /\ fetched = <<>>
    /\ asked = <<>>
    /\ listed = [error |-> NoError, events |-> <<>>]

\* What the panel may do to BUSY when it is given input: start working (0)
\* or leave the line as it is; a dead panel holds the line at 0.
BusyAfterInput == IF device = "dead" THEN {0} ELSE {0, busy}

\* A byte written with spidev's writebytes, with the levels of DC and CS then.
WriteEvent(byte) == [kind |-> "write", val |-> byte, mode |-> mode, enable |-> enable]

\* The transaction recorded in events: the first byte written and the rest.
Transaction(evs) ==
    LET IsWrite(e) == e.kind = "write"
        w == SelectSeq(evs, IsWrite)
    IN  [command |-> w[1].val, data |-> [t \in 1 .. Len(w) - 1 |-> w[t + 1].val]]

\* __init__ setting up Busy as an output like the other pins.
SetupPinsAllOut ==
    [ENABLE |-> "out", RESET |-> "out", BUSY |-> "out", MODE |-> "out", LED |-> "out"]

\* eink.py:56-60  the direction each pin is set up with
SetupPins ==
    [ENABLE |-> "out", RESET |-> "out", BUSY |-> "in", MODE |-> "out", LED |-> "out"]

\* eink.py:196, 198, 200  time.sleep(.2), in milliseconds
ResetDelay == 200

\* An output on a pin, a byte written to the bus, a delay: the entries of log.
Output(pin, level) == [line |-> pin, val |-> level]
Written(byte) == [line |-> "SPI", val |-> byte]
Slept(ms) == [line |-> "sleep", val |-> ms]

\* The images whose first display is kept for comparison with later ones.
ReferenceImages == {"ramp", "mosaic", "large"}

\* No display call of a reference image has returned yet.
NoShown == [img |-> "none", data1 |-> <<>>, data2 |-> <<>>]

\* demo.py: res/demo.png does not exist.
NothingSaved == [src |-> "none", w |-> 0, h |-> 0]

EncNoInput == [v |-> 0, x |-> 0, y |-> 0, wide |-> FALSE]
EncNothing == [error |-> NoError]

\* eink.py:50-65: the state construction leaves.  setup() does not set the
\* level of an output, so CS, RST and DC are at whatever level they were.
Init ==
    /\ op = "none"
    /\ pc = "idle"
    /\ result = "ok"
    /\ img = "none"
    /\ todo = <<>>
    /\ cmd = 0
    /\ data = <<>>
    /\ idx = 1
    /\ state = 0
    /\ mode \in {0, 1}
    /\ enable \in {0, 1}
    /\ reset \in {0, 1}
    /\ led = 1
    /\ busy \in {0, 1}
    /\ device = "alive"
    /\ events = <<>>
    /\ sent = <<>>
    /\ pulse = <<>>
    /\ owed = 0
    /\ tick = 0
    /\ encIn = EncNoInput
    /\ encBuf = EncNothing
    /\ encOut = EncNothing
    /\ encPc = "off"
    /\ log = <<>>
    /\ used = {"LED"}
    /\ life = "none"
    /\ shown = NoShown
    /\ pins = SetupPins
    /\ bus = "open"
    /\ gpiomem = TRUE
    /\ woken = FALSE
    /\ saved = NothingSaved
    /\ resdir = FALSE
    /\ demoOp = "none"
    /\ demoArg = "none"
    /\ demoResult = "ok"
    /\ NoCalendar
    /\ NoOrganiser

\* What the entry of a public method leaves alone; the records of the call
\* (events, sent, pulse, log, used) start empty.
entryVars == << sendVars, state, lineVars, busy, device, owed, tick, encVars,
               life, shown, setupVars, demoVars, calVars, orgVars >>

\* wake skipping the reset pulse when the panel was woken before.
WakeResetsOnce ==
    /\ pc = "idle"
    /\ encPc = "off"
    /\ op' = "wake"
    /\ img' = "none"
    /\ todo' = WakeSends \o InitLutSends
    /\ pc' = IF life = "none" THEN "reset_high" ELSE "send"
    /\ result' = Running
    /\ events' = <<>>
    /\ sent' = <<>>
    /\ pulse' = <<>>
    /\ log' = <<>>
    /\ used' = {}
    /\ UNCHANGED entryVars

\* eink.py:77-100  wake: _reset(), eight _send calls, _init_lut().
Wake ==
    /\ pc = "idle"
    /\ encPc = "off"
    /\ op' = "wake"
    /\ img' = "none"
    /\ todo' = WakeSends \o InitLutSends
    /\ pc' = "reset_high"
    /\ result' = Running
    /\ events' = <<>>
    /\ sent' = <<>>
    /\ pulse' = <<>>
    /\ log' = <<>>
    /\ used' = {}
    /\ UNCHANGED entryVars

\* eink.py:102-118  display entered with an image
Display ==
    /\ pc = "idle"
    /\ encPc = "off"
    /\ op' = "display"
    /\ img' \in Images
    /\ todo' = <<>>
    /\ pc' = "display_encode"
    /\ result' = Running
    /\ events' = <<>>
    /\ sent' = <<>>
    /\ pulse' = <<>>
    /\ log' = <<>>
    /\ used' = {}
    /\ UNCHANGED entryVars

\* clear refusing to run unless the panel was woken last.
ClearChecksAwake ==
    /\ pc = "idle"
    /\ encPc = "off"
    /\ op' = "clear"
    /\ img' = "none"
    /\ todo' = IF life = "wake" THEN ClearSends ELSE <<>>
    /\ pc' = IF life = "wake" THEN "send" ELSE "idle"
    /\ result' = IF life = "wake" THEN Running ELSE "RuntimeError"
    /\ events' = <<>>
    /\ sent' = <<>>
    /\ pulse' = <<>>
    /\ log' = <<>>
    /\ used' = {}
    /\ UNCHANGED entryVars

\* eink.py:157-172  clear
Clear ==
    /\ pc = "idle"
    /\ encPc = "off"
    /\ op' = "clear"
    /\ img' = "none"
    /\ todo' = ClearSends
    /\ pc' = "send"
    /\ result' = Running
    /\ events' = <<>>
    /\ sent' = <<>>
    /\ pulse' = <<>>
    /\ log' = <<>>
    /\ used' = {}
    /\ UNCHANGED entryVars

\* eink.py:174-188  sleep
Sleep ==
    /\ pc = "idle"
    /\ encPc = "off"
    /\ op' = "sleep"
    /\ img' = "none"
    /\ todo' = SleepSends
    /\ pc' = "send"
    /\ result' = Running
    /\ events' = <<>>
    /\ sent' = <<>>
    /\ pulse' = <<>>
    /\ log' = <<>>
    /\ used' = {}
    /\ UNCHANGED entryVars

\* display turning the LED off before it looks at its argument.
DisplayEncodeSignalsFirst ==
    /\ pc = "display_encode"
    /\ \E wide \in BOOLEAN :
        LET enc == Encode(ImageOf(img), wide)
        IN  IF enc.error = NoError
            THEN /\ todo' = DisplaySends(enc)
                 /\ pc' = "send"
                 /\ UNCHANGED result
            ELSE /\ todo' = <<>>
                 /\ pc' = "idle"
                 /\ result' = enc.error
    /\ led' = 0
    /\ used' = used \cup {"LED"}
    /\ UNCHANGED << op, img, sendVars, state, mode, enable, reset, busy, device,
                    events, sent, pulse, owed, tick, encVars,
                    log, life, shown, setupVars, demoVars, calVars, orgVars >>

\* display or-ing the new planes into the planes an earlier call left.
DisplayEncodeKeepsPlanes ==
    /\ pc = "display_encode"
    /\ \E wide \in BOOLEAN :
        LET enc == Encode(ImageOf(img), wide)
            kept == [error |-> NoError,
                     data1 |-> [t \in 1 .. Len(enc.data1) |->
                                   BitOr(enc.data1[t], shown.data2[t])],
                     data2 |-> [t \in 1 .. Len(enc.data2) |->
                                   BitOr(enc.data2[t], shown.data1[t])]]
        IN  IF enc.error = NoError
            THEN /\ todo' = DisplaySends(IF shown = NoShown THEN enc ELSE kept)
                 /\ pc' = "send"
                 /\ UNCHANGED result
            ELSE /\ todo' = <<>>
                 /\ pc' = "idle"
                 /\ result' = enc.error
    /\ UNCHANGED << op, img, sendVars, state, lineVars, busy, device, events,
                    sent, pulse, owed, tick, encVars,
                    log, used, life, shown, setupVars, demoVars, calVars, orgVars >>

\* eink.py:117-147  the None check and the encoding: an exception leaves
\* display, else the three _send calls follow
DisplayEncode ==
    /\ pc = "display_encode"
    /\ \E wide \in BOOLEAN :
        LET enc == Encode(ImageOf(img), wide)
        IN  IF enc.error = NoError
            THEN /\ todo' = DisplaySends(enc)
                 /\ pc' = "send"
                 /\ UNCHANGED result
            ELSE /\ todo' = <<>>
                 /\ pc' = "idle"
                 /\ result' = enc.error
    /\ UNCHANGED << op, img, sendVars, state, lineVars, busy, device, events,
                    sent, pulse, owed, tick, encVars,
                    log, used, life, shown, setupVars, demoVars, calVars, orgVars >>

\* eink.py:195-196  RST high
ResetHigh ==
    /\ pc = "reset_high"
    /\ reset' = 1
    /\ pulse' = Append(pulse, 1)
    /\ log' = log \o << Output("RESET", 1), Slept(ResetDelay) >>
    /\ used' = used \cup {"RESET"}
    /\ busy' \in BusyAfterInput
    /\ pc' = "reset_low"
    /\ UNCHANGED << op, result, img, todo, sendVars, state, mode, enable, led,
                    device, events, sent, owed, tick, encVars,
                    life, shown, setupVars, demoVars, calVars, orgVars >>

\* _reset never pulling RST low.
ResetLowStaysHigh ==
    /\ pc = "reset_low"
    /\ reset' = 1
    /\ pulse' = Append(pulse, 1)
    /\ log' = log \o << Output("RESET", 1), Slept(ResetDelay) >>
    /\ used' = used \cup {"RESET"}
    /\ busy' \in BusyAfterInput
    /\ pc' = "reset_release"
    /\ UNCHANGED << op, result, img, todo, sendVars, state, mode, enable, led,
                    device, events, sent, owed, tick, encVars,
                    life, shown, setupVars, demoVars, calVars, orgVars >>

\* eink.py:197-198  RST low
ResetLow ==
    /\ pc = "reset_low"
    /\ reset' = 0
    /\ pulse' = Append(pulse, 0)
    /\ log' = log \o << Output("RESET", 0), Slept(ResetDelay) >>
    /\ used' = used \cup {"RESET"}
    /\ busy' \in BusyAfterInput
    /\ pc' = "reset_release"
    /\ UNCHANGED << op, result, img, todo, sendVars, state, mode, enable, led,
                    device, events, sent, owed, tick, encVars,
                    life, shown, setupVars, demoVars, calVars, orgVars >>

\* _reset ending with a handshake wait like _send.
ResetReleaseWaits ==
    /\ pc = "reset_release"
    /\ reset' = 1
    /\ pulse' = Append(pulse, 1)
    /\ log' = log \o << Output("RESET", 1), Slept(ResetDelay) >>
    /\ used' = used \cup {"RESET"}
    /\ busy' \in BusyAfterInput
    /\ owed' = owed + 1
    /\ pc' = "wait_led_off"
    /\ UNCHANGED << op, result, img, todo, sendVars, state, mode, enable, led,
                    device, events, sent, tick, encVars,
                    life, shown, setupVars, demoVars, calVars, orgVars >>

\* eink.py:199-200  RST high again
ResetRelease ==
    /\ pc = "reset_release"
    /\ reset' = 1
    /\ pulse' = Append(pulse, 1)
    /\ log' = log \o << Output("RESET", 1), Slept(ResetDelay) >>
    /\ used' = used \cup {"RESET"}
    /\ busy' \in BusyAfterInput
    /\ pc' = "send"
    /\ UNCHANGED << op, result, img, todo, sendVars, state, mode, enable, led,
                    device, events, sent, owed, tick, encVars,
                    life, shown, setupVars, demoVars, calVars, orgVars >>

\* A bus write that fails: the exception leaves _send and the public method,
\* and the arguments and locals of _send are gone.
Raise(error) ==
    /\ pc' = "idle"
    /\ result' = error
    /\ todo' = <<>>
    /\ cmd' = 0
    /\ data' = <<>>
    /\ idx' = 1

\* eink.py:260  _send entered with the next command; DC low
SendModeCommand ==
    /\ pc = "send"
    /\ todo # <<>>
    /\ cmd' = Head(todo).command
    /\ data' = Head(todo).data
    /\ idx' = 1
    /\ todo' = Tail(todo)
    /\ mode' = 0
    /\ events' = << [kind |-> "mode", val |-> 0, mode |-> 0, enable |-> enable] >>
    /\ log' = Append(log, Output("MODE", 0))
    /\ used' = used \cup {"MODE"}
    /\ pc' = "send_enable"
    /\ UNCHANGED << op, result, img, state, enable, reset, led, busy, device,
                    sent, pulse, owed, tick, encVars,
                    life, shown, setupVars, demoVars, calVars, orgVars >>

\* eink.py:261  CS low
SendEnable ==
    /\ pc = "send_enable"
    /\ enable' = 0
    /\ events' = Append(events, [kind |-> "enable", val |-> 0, mode |-> mode, enable |-> 0])
    /\ log' = Append(log, Output("ENABLE", 0))
    /\ used' = used \cup {"ENABLE"}
    /\ pc' = "send_command"
    /\ UNCHANGED << op, result, img, todo, sendVars, state, mode, reset, led,
                    busy, device, sent, pulse, owed, tick, encVars,
                    life, shown, setupVars, demoVars, calVars, orgVars >>

\* eink.py:262  writebytes([command])
SendCommand ==
    /\ pc = "send_command"
    /\ used' = used \cup {"SPI"}
    /\ \/ /\ events' = Append(events, WriteEvent(cmd))
          /\ log' = Append(log, Written(cmd))
          /\ busy' \in BusyAfterInput
          /\ pc' = "send_mode_data"
          /\ UNCHANGED << result, todo, sendVars >>
       \/ /\ Raise(IOError)
          /\ UNCHANGED << events, busy, log >>
    /\ UNCHANGED << op, img, state, lineVars, device, sent, pulse, owed, tick,
                    encVars,
                    life, shown, setupVars, demoVars, calVars, orgVars >>

\* _send without the switch of DC to data mode.
SendModeDataMissing ==
    /\ pc = "send_mode_data"
    /\ events' = Append(events, [kind |-> "mode", val |-> mode, mode |-> mode, enable |-> enable])
    /\ pc' = "send_data"
    /\ UNCHANGED << op, result, img, todo, sendVars, state, lineVars,
                    busy, device, sent, pulse, owed, tick, encVars,
                    log, used, life, shown, setupVars, demoVars, calVars, orgVars >>

\* eink.py:264  DC high
SendModeData ==
    /\ pc = "send_mode_data"
    /\ mode' = 1
    /\ events' = Append(events, [kind |-> "mode", val |-> 1, mode |-> 1, enable |-> enable])
    /\ log' = Append(log, Output("MODE", 1))
    /\ used' = used \cup {"MODE"}
    /\ pc' = "send_data"
    /\ UNCHANGED << op, result, img, todo, sendVars, state, enable, reset, led,
                    busy, device, sent, pulse, owed, tick, encVars,
                    life, shown, setupVars, demoVars, calVars, orgVars >>

\* _send going on to the next byte when a write of a data byte fails.
SendDataCarriesOn ==
    /\ pc = "send_data"
    /\ idx <= Len(data)
    /\ used' = used \cup {"SPI"}
    /\ \/ /\ events' = Append(events, WriteEvent(data[idx]))
          /\ log' = Append(log, Written(data[idx]))
          /\ busy' \in BusyAfterInput
          /\ idx' = idx + 1
          /\ UNCHANGED << pc, result, todo, cmd, data >>
       \/ /\ idx' = idx + 1
          /\ UNCHANGED << pc, result, todo, cmd, data, events, busy, log >>
    /\ UNCHANGED << op, img, state, lineVars, device, sent, pulse, owed, tick,
                    encVars,
                    life, shown, setupVars, demoVars, calVars, orgVars >>

\* eink.py:265-266  one pass of the for loop: writebytes([int(byte)])
SendData ==
    /\ pc = "send_data"
    /\ idx <= Len(data)
    /\ used' = used \cup {"SPI"}
    /\ \/ /\ events' = Append(events, WriteEvent(data[idx]))
          /\ log' = Append(log, Written(data[idx]))
          /\ busy' \in BusyAfterInput
          /\ idx' = idx + 1
          /\ UNCHANGED << pc, result, todo, cmd, data >>
       \/ /\ Raise(IOError)
          /\ UNCHANGED << events, busy, log >>
    /\ UNCHANGED << op, img, state, lineVars, device, sent, pulse, owed, tick,
                    encVars,
                    life, shown, setupVars, demoVars, calVars, orgVars >>

\* _send returning without the call of _wait.
SendDisableNoWait ==
    /\ pc = "send_data"
    /\ idx > Len(data)
    /\ enable' = 1
    /\ events' = Append(events, [kind |-> "enable", val |-> 1, mode |-> mode, enable |-> 1])
    /\ log' = Append(log, Output("ENABLE", 1))
    /\ used' = used \cup {"ENABLE"}
    /\ sent' = Append(sent, Transaction(events))
    /\ owed' = owed + 1
    /\ busy' \in BusyAfterInput
    /\ IF todo = <<>>
       THEN pc' = "idle" /\ result' = "ok"
       ELSE pc' = "send" /\ UNCHANGED result
    /\ UNCHANGED << op, img, todo, sendVars, state, mode, reset, led,
                    device, pulse, tick, encVars,
                    life, shown, setupVars, demoVars, calVars, orgVars >>

\* eink.py:268  the loop is over; CS high: the transaction is on the bus
SendDisable ==
    /\ pc = "send_data"
    /\ idx > Len(data)
    /\ enable' = 1
    /\ events' = Append(events, [kind |-> "enable", val |-> 1, mode |-> mode, enable |-> 1])
    /\ log' = Append(log, Output("ENABLE", 1))
    /\ used' = used \cup {"ENABLE"}
    /\ sent' = Append(sent, Transaction(events))
    /\ owed' = owed + 1
    /\ busy' \in BusyAfterInput
    /\ pc' = "wait_led_off"
    /\ UNCHANGED << op, result, img, todo, sendVars, state, mode, reset, led,
                    device, pulse, tick, encVars,
                    life, shown, setupVars, demoVars, calVars, orgVars >>

\* eink.py:282-285  _wait entered: LED off, state = 0
WaitBegin ==
    /\ pc = "wait_led_off"
    /\ led' = 0
    /\ used' = used \cup {"LED"}
    /\ state' = 0
    /\ tick' = 0
    /\ pc' = "wait_poll"
    /\ UNCHANGED << op, result, img, todo, sendVars, mode, enable, reset, busy,
                    device, events, sent, pulse, owed, encVars,
                    log, life, shown, setupVars, demoVars, calVars, orgVars >>

\* _wait turning the LED on at every pass instead of toggling it.
WaitPollNoBlink ==
    /\ pc = "wait_poll"
    /\ tick' = 1 - tick
    /\ IF busy = 0
       THEN /\ state' = 1
            /\ led' = state'
            /\ pc' = "wait_poll"
       ELSE /\ pc' = "wait_led_on"
            /\ UNCHANGED << state, led >>
    /\ used' = used \cup (IF pc' = "wait_poll" THEN {"BUSY", "LED"} ELSE {"BUSY"})
    /\ UNCHANGED << op, result, img, todo, sendVars, mode, enable, reset, busy,
                    device, events, sent, pulse, owed, encVars,
                    log, life, shown, setupVars, demoVars, calVars, orgVars >>

\* _wait giving up at the second read of BUSY that finds the panel busy.
WaitPollGivesUp ==
    /\ pc = "wait_poll"
    /\ tick' = 1 - tick
    /\ IF busy = 0 /\ state = 0
       THEN /\ state' = BitXor1(state)
            /\ led' = state'
            /\ pc' = "wait_poll"
       ELSE /\ pc' = "wait_led_on"
            /\ UNCHANGED << state, led >>
    /\ used' = used \cup (IF pc' = "wait_poll" THEN {"BUSY", "LED"} ELSE {"BUSY"})
    /\ UNCHANGED << op, result, img, todo, sendVars, mode, enable, reset, busy,
                    device, events, sent, pulse, owed, encVars,
                    log, life, shown, setupVars, demoVars, calVars, orgVars >>

\* _wait with the sense of BUSY inverted: it loops while the line reads 1.
WaitPollInverted ==
    /\ pc = "wait_poll"
    /\ tick' = 1 - tick
    /\ IF busy # 0
       THEN /\ state' = BitXor1(state)
            /\ led' = state'
            /\ pc' = "wait_poll"
       ELSE /\ pc' = "wait_led_on"
            /\ UNCHANGED << state, led >>
    /\ used' = used \cup (IF pc' = "wait_poll" THEN {"BUSY", "LED"} ELSE {"BUSY"})
    /\ UNCHANGED << op, result, img, todo, sendVars, mode, enable, reset, busy,
                    device, events, sent, pulse, owed, encVars,
                    log, life, shown, setupVars, demoVars, calVars, orgVars >>

\* eink.py:286-289  the while condition reads BUSY; on 0 the body blinks the LED
WaitPoll ==
    /\ pc = "wait_poll"
    /\ tick' = 1 - tick
    /\ IF busy = 0
       THEN /\ state' = BitXor1(state)
            /\ led' = state'
            /\ pc' = "wait_poll"
       ELSE /\ pc' = "wait_led_on"
            /\ UNCHANGED << state, led >>
    /\ used' = used \cup (IF pc' = "wait_poll" THEN {"BUSY", "LED"} ELSE {"BUSY"})
    /\ UNCHANGED << op, result, img, todo, sendVars, mode, enable, reset, busy,
                    device, events, sent, pulse, owed, encVars,
                    log, life, shown, setupVars, demoVars, calVars, orgVars >>

\* eink.py:291-294  LED on; _wait and _send return (their locals are gone),
\* and the public method returns after its last _send
WaitEnd ==
    /\ pc = "wait_led_on"
    /\ led' = 1
    /\ owed' = owed - 1
    /\ state' = 0
    /\ tick' = 0
    /\ cmd' = 0
    /\ data' = <<>>
    /\ idx' = 1
    /\ used' = used \cup {"LED"}
    /\ IF todo = <<>>
       THEN /\ pc' = "idle"
            /\ result' = "ok"
            /\ life' = IF op \in {"wake", "sleep"} THEN op ELSE life
            /\ shown' = IF op = "display" /\ shown = NoShown /\ img \in ReferenceImages
                        THEN [img |-> img, data1 |-> sent[1].data, data2 |-> sent[2].data]
                        ELSE shown
       ELSE /\ pc' = "send"
            /\ UNCHANGED << result, life, shown >>
    /\ UNCHANGED << op, img, todo, mode, enable, reset, busy, device, events,
                    sent, pulse, encVars, log, setupVars, demoVars, calVars, orgVars >>

\* The panel finishes its work and raises BUSY.
DeviceReady ==
    /\ encPc = "off"
    /\ device = "alive"
    /\ busy = 0
    /\ busy' = 1
    /\ UNCHANGED << op, pc, result, img, todo, sendVars, state, lineVars, device,
                    events, sent, pulse, owed, tick, encVars,
                    log, used, life, shown, setupVars, demoVars, calVars, orgVars >>

\* The panel stops answering: BUSY stays at 0 from now on.
DeviceDies ==
    /\ encPc = "off"
    /\ device = "alive"
    /\ device' = "dead"
    /\ busy' = 0
    /\ UNCHANGED << op, pc, result, img, todo, sendVars, state, lineVars,
                    events, sent, pulse, owed, tick, encVars,
                    log, used, life, shown, setupVars, demoVars, calVars, orgVars >>

\* The statements of _reset, _send and _wait.
Transport ==
    \/ ResetHigh
    \/ ResetLow
    \/ ResetRelease
    \/ SendModeCommand
    \/ SendEnable
    \/ SendCommand
    \/ SendModeData
    \/ SendData
    \/ SendDisable
    \/ WaitBegin
    \/ WaitPoll
    \/ WaitEnd

Next ==
    \/ Wake
    \/ Display
    \/ Clear
    \/ Sleep
    \/ DisplayEncode
    \/ Transport
    \/ DeviceReady
    \/ DeviceDies

Spec == Init /\ [][Next]_vars

(***************************************************************************)
(* The encoder run on its own: a panel-sized image holding one pixel of     *)
(* value v on a background of the complementary shade.                      *)
(***************************************************************************)
Complement(v) == (3 - (v \div 64)) * 64 + 21

Speck(v, x, y) ==
    Picture(WIDTH, HEIGHT,
            [c \in Pixels(WIDTH, HEIGHT) |-> IF c = <<x, y>> THEN v ELSE Complement(v)])

EncInit ==
    /\ op = "none"
    /\ pc = "idle"
    /\ result = "ok"
    /\ img = "none"
    /\ todo = <<>>
    /\ cmd = 0
    /\ data = <<>>
    /\ idx = 1
    /\ state = 0
    /\ mode = 0
    /\ enable = 1
    /\ reset = 1
    /\ led = 1
    /\ busy = 1
    /\ device = "alive"
    /\ events = <<>>
    /\ sent = <<>>
    /\ pulse = <<>>
    /\ owed = 0
    /\ tick = 0
    /\ encIn \in [v : 0 .. 255, x : 0 .. WIDTH - 1, y : {0, HEIGHT - 1}, wide : BOOLEAN]
    /\ encBuf = EncNothing
    /\ encOut = EncNothing
    /\ encPc = "in"
    /\ log = <<>>
    /\ used = {"LED"}
    /\ life = "none"
    /\ shown = NoShown
    /\ pins = SetupPins
    /\ bus = "open"
    /\ gpiomem = TRUE
    /\ woken = FALSE
    /\ saved = NothingSaved
    /\ resdir = FALSE
    /\ demoOp = "none"
    /\ demoArg = "none"
    /\ demoResult = "ok"
    /\ NoCalendar
    /\ NoOrganiser

driverVars == << op, pc, result, img, todo, cmd, data, idx, state, mode, enable,
                 reset, led, busy, device, events, sent, pulse, owed, tick,
                 log, used, life, shown, setupVars, demoVars, calVars, orgVars >>

\* eink.py:120  buffer = self._get_buffer(image)
EncPack ==
    /\ encPc = "in"
    /\ encBuf' = GetBuffer(Speck(encIn.v, encIn.x, encIn.y))
    /\ encPc' = "packed"
    /\ UNCHANGED << driverVars, encIn, encOut >>

\* eink.py:121-147  the split of the packed buffer into the two planes
EncSplit ==
    /\ encPc = "packed"
    /\ encBuf.error = NoError
    /\ encOut' = [planes |-> SplitLoop(encBuf.buffer, encIn.wide, 0,
                                        [error |-> NoError, data1 |-> <<>>, data2 |-> <<>>]),
                  widest |-> SplitByte(encBuf.buffer,
                                       (encIn.x + encIn.y * WIDTH) \div 8,
                                       encIn.wide).widest]
    /\ encPc' = "split"
    /\ UNCHANGED << driverVars, encIn, encBuf >>

EncNext == EncPack \/ EncSplit

EncSpec == EncInit /\ [][EncNext]_vars

\* The driver is one thread that runs on while it is inside a call: weak
\* fairness of its statements.  That of DisplayEncode, which is enabled exactly
\* while pc = "display_encode" and then leaves it, is written out as []<>.  The
\* panel finishes the work it was given: weak fairness of DeviceReady.
LiveSpec ==
    /\ Spec
    /\ WF_vars(Transport)
    /\ []<>(pc # "display_encode")
    /\ WF_vars(DeviceReady)

(***************************************************************************)
(* Properties.                                                             *)
(***************************************************************************)
InSend == pc \in {"send_enable", "send_command", "send_mode_data", "send_data"}

InWait == pc \in {"wait_led_off", "wait_poll", "wait_led_on"}

Returned(name) == op = name /\ pc = "idle" /\ result = "ok"

IsPrefix(a, b) == Len(a) <= Len(b) /\ \A n \in 1 .. Len(a) : a[n] = b[n]

Bit(n, k) == (n \div (2 ^ k)) % 2

HasWrite(evs) == \E n \in 1 .. Len(evs) : evs[n].kind = "write"

\* The opcode of the transaction in progress, once it is on the bus.
OpcodeOnBus == Transaction(events).command

\* eink.py:22: the panel of the source and its plane size.
SourceWidth == 400
SourceHeight == 300

\* C1: the first eight transactions of wake, as the claim lists them.
ClaimWakeHead ==
    << Cmd(1, <<3, 0, 43, 43, 19>>), Cmd(6, <<23, 23, 23>>), Cmd(4, <<>>),
       Cmd(0, <<63>>), Cmd(48, <<60>>), Cmd(97, <<1, 144, 1, 44>>),
       Cmd(130, <<18>>), Cmd(80, <<151>>) >>

ClaimWakeOpcodes == <<1, 6, 4, 0, 48, 97, 130, 80, 32, 33, 34, 35, 36>>

\* C1: every wake() emits, after the reset pulse and in this order, the
\* thirteen transactions 0x01 [03 00 2B 2B 13], 0x06 [17 17 17], 0x04 [],
\* 0x00 [3F], 0x30 [3C], 0x61 [01 90 01 2C], 0x82 [12], 0x50 [97], then 0x20 ..
\* 0x24 each with 42 bytes; what is on the bus at any moment of the call is a
\* prefix of that sequence, and the whole of it when wake returns.
WakeEmitsFixedSequence ==
    op = "wake" =>
        /\ Len(sent) <= 13
        /\ \A n \in 1 .. Len(sent) :
              IF n <= 8 THEN sent[n] = ClaimWakeHead[n]
              ELSE sent[n].command = 32 + (n - 9) /\ Len(sent[n].data) = 42
        /\ (InSend /\ HasWrite(events)) =>
              Len(sent) < 13 /\ OpcodeOnBus = ClaimWakeOpcodes[Len(sent) + 1]
        /\ (events # <<>> \/ sent # <<>>) => Len(pulse) = 3
        /\ Returned("wake") => Len(sent) = 13

WakeReturned == Returned("wake") /\ Len(sent) = 13 /\ sent[13].command = 36

\* C2: display(image) with a valid image emits three transactions: 0x10 with
\* plane A, 0x13 with plane B (each WIDTH*HEIGHT/8 bytes: 15000 for the 400x300
\* panel), then 0x12 with no payload; 0x12 is not on the bus before both planes
\* have been transmitted in the same call.
DisplayEmitsPlanesThenRefresh ==
    /\ (SourceWidth * SourceHeight) \div 8 = 15000
    /\ op = "display" =>
        /\ Len(sent) <= 3
        /\ Len(sent) >= 1 =>
              /\ sent[1].command = 16
              /\ Len(sent[1].data) = PlaneSize
              /\ sent[1].data = Encode(ImageOf(img), TRUE).data1
        /\ Len(sent) >= 2 =>
              /\ sent[2].command = 19
              /\ Len(sent[2].data) = PlaneSize
              /\ sent[2].data = Encode(ImageOf(img), TRUE).data2
        /\ Len(sent) >= 3 => sent[3] = Cmd(18, <<>>)
        /\ (InSend /\ HasWrite(events) /\ OpcodeOnBus = 18) => Len(sent) = 2
        /\ (InSend /\ HasWrite(events)) => OpcodeOnBus = <<16, 19, 18>>[Len(sent) + 1]
        /\ Returned("display") => Len(sent) = 3

DisplayReturned == Returned("display") /\ img = "mosaic" /\ Len(sent) = 3

\* C3: the plane bits (A, B) the claim gives for a pixel value.
ClaimPlaneBits(v) ==
    CASE v \div 64 = 3 -> <<1, 1>>
      [] v \div 64 = 2 -> <<1, 0>>
      [] v \div 64 = 1 -> <<0, 1>>
      [] v \div 64 = 0 -> <<0, 0>>

\* C3: for each of the 256 pixel values v, a pixel of value v set in an image
\* of the complementary shade is encoded without _get_masks ever returning no
\* value (also on the shifted chunks wider than 8 bits), and in the planes one
\* bit position holds the pair the table gives for the top two bits of v, all
\* other positions holding the pair of the background.
MasksFromTopTwoBits ==
    encPc = "split" =>
        LET planes == encOut.planes
            pix == ClaimPlaneBits(encIn.v)
            bg == ClaimPlaneBits(Complement(encIn.v))
            Places == (1 .. PlaneSize) \X (0 .. 7)
        IN  /\ planes.error = NoError
            /\ Len(planes.data1) = PlaneSize
            /\ Len(planes.data2) = PlaneSize
            /\ \E at \in Places :
                  \A c \in Places :
                      /\ Bit(planes.data1[c[1]], c[2]) = IF c = at THEN pix[1] ELSE bg[1]
                      /\ Bit(planes.data2[c[1]], c[2]) = IF c = at THEN pix[2] ELSE bg[2]

LightPixelSplitFromWideChunk ==
    /\ encPc = "split"
    /\ encIn.v = 191
    /\ encIn.wide
    /\ encOut.widest > 255

\* Every pixel of the named image has the top two bits c.
AllPixels(name, c) ==
    LET image == ImageOf(name)
    IN  /\ image.kind = "L"
        /\ \A at \in Pixels(image.w, image.h) : image.px[at] \div 64 = c

AllBytes(seq, b) == \A n \in 1 .. Len(seq) : seq[n] = b

\* C4: an image whose pixels are all White (top two bits 11) is transmitted as
\* two planes of 0xFF bytes, and one whose pixels are all Black (00) as two
\* planes of 0x00 bytes.
UniformShadePlanes ==
    (op = "display" /\ Len(sent) >= 2) =>
        /\ AllPixels(img, 3) => AllBytes(sent[1].data, 255) /\ AllBytes(sent[2].data, 255)
        /\ AllPixels(img, 0) => AllBytes(sent[1].data, 0) /\ AllBytes(sent[2].data, 0)
        /\ Len(sent[1].data) = PlaneSize /\ Len(sent[2].data) = PlaneSize

WhiteNoiseDisplayed == Returned("display") /\ img = "whitenoise" /\ Len(sent) = 3

\* C5: clear() transmits to 0x10 and then to 0x13 a plane of WIDTH*HEIGHT/8
\* bytes 0xFF, the planes display() transmits for an all-White image, and then
\* 0x12 with no payload.
ClearSendsWhitePlanes ==
    Returned("clear") =>
        /\ Len(sent) = 3
        /\ sent[1] = Cmd(16, Encode(ImageOf("white"), TRUE).data1)
        /\ sent[2] = Cmd(19, Encode(ImageOf("white"), TRUE).data2)
        /\ AllBytes(sent[1].data, 255) /\ Len(sent[1].data) = PlaneSize
        /\ AllBytes(sent[2].data, 255) /\ Len(sent[2].data) = PlaneSize
        /\ sent[3] = Cmd(18, <<>>)

\* C6: the events of a transaction with command c and payload d, as the claim
\* orders them; e0 is the level CS had before the transaction.
ClaimEvents(c, d, e0) ==
    << [kind |-> "mode", val |-> 0, mode |-> 0, enable |-> e0],
       [kind |-> "enable", val |-> 0, mode |-> 0, enable |-> 0],
       [kind |-> "write", val |-> c, mode |-> 0, enable |-> 0],
       [kind |-> "mode", val |-> 1, mode |-> 1, enable |-> 0] >>
    \o [t \in 1 .. Len(d) |-> [kind |-> "write", val |-> d[t], mode |-> 1, enable |-> 0]]
    \o << [kind |-> "enable", val |-> 1, mode |-> 1, enable |-> 1] >>

\* C6: within a transaction the events are, in order: DC low, CS low, the
\* command byte, DC high, the payload bytes in payload order, CS high; so every
\* byte is written with CS low, the command with DC low, the data with DC high.
SendEventOrder ==
    (InSend \/ InWait) =>
        /\ IsPrefix(events, ClaimEvents(cmd, data, events[1].enable))
        /\ InWait => events = ClaimEvents(cmd, data, events[1].enable)
        /\ \A n \in 1 .. Len(events) :
              events[n].kind = "write" =>
                  /\ events[n].enable = 0
                  /\ events[n].mode = IF n = 3 THEN 0 ELSE 1

LongTransactionOnBus == pc = "wait_led_off" /\ Len(data) = 42 /\ Len(events) = 47

\* C7: the handshake wait runs once per transaction, after CS is raised and
\* never between bytes: the transactions put on the bus exceed the waits
\* returned by one exactly while a wait is in progress, and by none otherwise,
\* so no byte is written while a wait is owed.
HandshakeOncePerSend ==
    /\ owed \in {0, 1}
    /\ owed = 1 <=> InWait
    /\ InWait => enable = 1 /\ events[Len(events)].kind = "enable"
    /\ pc \in {"send_command", "send_data"} => owed = 0

NextTransactionAfterWait == pc = "send_command" /\ Len(sent) = 2 /\ owed = 0

\* C8: _wait lowers the LED before it first reads BUSY, toggles the LED at
\* every read that finds BUSY at 0, leaves the loop only on a read that finds
\* BUSY not 0, and has the LED on when it returns.
WaitBlinks ==
    [][ /\ pc = "wait_led_off" =>
              (tick' = 0 /\ (pc' # pc => pc' = "wait_poll" /\ led' = 0))
        /\ (pc = "wait_poll" /\ tick = 0 /\ state = 0) => led = 0
        /\ (pc = "wait_poll" /\ tick' # tick /\ busy = 0) =>
              (led' = 1 - led /\ pc' = "wait_poll")
        /\ (pc = "wait_poll" /\ pc' # pc) =>
              (busy # 0 /\ tick' # tick /\ pc' = "wait_led_on")
        /\ (pc = "wait_led_on" /\ pc' # pc) => led' = 1
        /\ (InWait /\ ~InWait') => (pc = "wait_led_on" /\ led' = 1)
      ]_vars

ReadyAfterBlink == pc = "wait_led_on" /\ state = 1 /\ led = 1 /\ tick = 0

\* C9: the wait has no timeout: a read of BUSY that finds 0 is always followed
\* by another read, and once the panel holds BUSY at 0 for good a wait that has
\* not seen it ready never ends, by return or by exception, nor does the call.
WaitNeverTimesOut ==
    [][ /\ (pc = "wait_poll" /\ tick' # tick /\ busy = 0) =>
              (pc' = "wait_poll" /\ result' = Running /\ op' = op)
        /\ (device = "dead" /\ pc \in {"wait_led_off", "wait_poll"}) =>
              /\ pc' \in {"wait_led_off", "wait_poll"}
              /\ result' = Running
              /\ op' = op
              /\ device' = "dead"
              /\ busy' = 0
      ]_vars

HangingOnDeadPanel == device = "dead" /\ pc = "wait_poll" /\ state = 1 /\ op = "sleep"

\* C10: the opcodes of each operation's transactions.
ClaimOpcodes(name) ==
    CASE name = "wake" -> ClaimWakeOpcodes
      [] name = "display" -> <<16, 19, 18>>
      [] name = "clear" -> <<16, 19, 18>>
      [] name = "sleep" -> <<2, 7>>
      [] OTHER -> <<>>

\* C10: when the panel raises BUSY after every transaction (the panel of
\* LiveSpec does unless it has died), every call of wake, display with a valid
\* image, clear and sleep ends, and a call that ends without a failed bus write
\* has sent all its transactions.
CallsTerminate ==
    /\ (pc # "idle") ~> (pc = "idle" \/ device = "dead")
    /\ [](( /\ pc = "idle"
            /\ op # "none"
            /\ result # IOError
            /\ op = "display" => img \in PanelImages )
          => ( /\ result = "ok"
               /\ Len(sent) = Len(ClaimOpcodes(op))
               /\ \A n \in 1 .. Len(sent) : sent[n].command = ClaimOpcodes(op)[n] ))

SleepReturned == Returned("sleep") /\ Len(sent) = 2 /\ device = "alive"

\* C11: sleep() emits exactly two transactions, in this order: power-off 0x02
\* with no payload, then deep-sleep 0x07 with the one payload byte 0xA5; what
\* is on the bus at any moment of the call is a prefix of that, sleep drives no
\* reset pulse, and both transactions are sent when sleep returns.
SleepEmitsPowerOffThenDeepSleep ==
    op = "sleep" =>
        /\ IsPrefix(sent, << Cmd(2, <<>>), Cmd(7, <<165>>) >>)
        /\ (InSend /\ HasWrite(events)) =>
              Len(sent) < 2 /\ OpcodeOnBus = <<2, 7>>[Len(sent) + 1]
        /\ (pc = "send_data" /\ Len(sent) = 1) => data = <<165>>
        /\ pulse = <<>>
        /\ Returned("sleep") => Len(sent) = 2

DeepSleepSent ==
    /\ Returned("sleep")
    /\ life = "sleep"
    /\ sent = << Cmd(2, <<>>), Cmd(7, <<165>>) >>

\* The outputs and bytes of one _send call, in order.
TransactionLog(c) ==
    << Output("MODE", 0), Output("ENABLE", 0), Written(c.command), Output("MODE", 1) >>
    \o [t \in 1 .. Len(c.data) |-> Written(c.data[t])]
    \o << Output("ENABLE", 1) >>

RECURSIVE SendsLog(_)
SendsLog(sends) ==
    IF sends = <<>> THEN <<>>
    ELSE TransactionLog(Head(sends)) \o SendsLog(Tail(sends))

\* What a wake emits on RST, DC, CS and the bus when nothing came before it.
FirstWakeLog ==
    << Output("RESET", 1), Slept(ResetDelay), Output("RESET", 0), Slept(ResetDelay),
       Output("RESET", 1), Slept(ResetDelay) >>
    \o SendsLog(WakeSends \o InitLutSends)

\* C12: every wake() emits the same line events and bytes as the wake made
\* right after construction, whatever calls (display, clear, sleep, other
\* wakes, completed or failed) came before it; between calls the driver holds
\* nothing of the calls before: _send's and _wait's locals are gone, no wait is
\* owed, and the pin setup and the bus are as construction left them.
WakeSameEveryTime ==
    /\ op = "wake" =>
          LET first == FirstWakeLog
          IN  /\ IsPrefix(log, first)
              /\ Returned("wake") => log = first
    /\ pc = "idle" =>
          /\ todo = <<>> /\ cmd = 0 /\ data = <<>> /\ idx = 1
          /\ state = 0 /\ tick = 0 /\ owed = 0
          /\ pins = SetupPins /\ bus = "open"

WakeAgainAfterSleep ==
    /\ op = "wake"
    /\ pc = "wait_led_on"
    /\ todo = <<>>
    /\ life = "sleep"
    /\ shown # NoShown
    /\ log = FirstWakeLog

\* The named argument of display is None or an image of another size than the
\* panel's.
MisSized(name) ==
    LET image == ImageOf(name)
    IN  IF image.kind = "None" THEN TRUE
        ELSE image.w # WIDTH \/ image.h # HEIGHT

\* C13: display() fails with an input error whenever the image is absent or
\* its size is not exactly the panel's, smaller or larger in either dimension:
\* no such call gets past the encoding.
DisplayRejectsMisSized ==
    (op = "display" /\ pc # "display_encode" /\ MisSized(img)) =>
        /\ pc = "idle"
        /\ result \in {TypeError, IndexError}

\* C14: when display() raises because of its input (None, or a pixel read
\* outside the image) the call has driven no GPIO pin, read none and written
\* no byte: until the encoding is over the call's record of hardware use is
\* empty, and it is still empty when the exception has left display.
InputErrorBeforeHardware ==
    /\ (op = "display" /\ pc = "display_encode") =>
          /\ used = {} /\ log = <<>>
          /\ sent = <<>> /\ events = <<>> /\ pulse = <<>> /\ owed = 0
    /\ (op = "display" /\ result \in {TypeError, IndexError}) =>
          /\ pc = "idle"
          /\ used = {} /\ log = <<>>
          /\ sent = <<>> /\ events = <<>> /\ pulse = <<>> /\ owed = 0

ShortImageRaised ==
    /\ op = "display"
    /\ img = "short"
    /\ result = IndexError
    /\ life = "wake"
    /\ used = {}

\* C15: a display() call given the image of an earlier display call that
\* returned (the first one of a reference image) transmits the planes that
\* call transmitted, byte for byte, whatever calls were made in between.
SameImageSamePlanes ==
    (op = "display" /\ shown.img = img) =>
        /\ Len(sent) >= 1 => sent[1].data = shown.data1
        /\ Len(sent) >= 2 => sent[2].data = shown.data2
        /\ (InSend /\ Len(sent) = 0) => data = shown.data1
        /\ (InSend /\ Len(sent) = 1) => data = shown.data2

RampShownAgain ==
    /\ op = "display"
    /\ img = "ramp"
    /\ shown.img = "ramp"
    /\ life = "sleep"
    /\ pc = "wait_poll"
    /\ Len(sent) = 2

InReset == pc \in {"reset_high", "reset_low", "reset_release"}

\* C16, as the claim has it: the reset step drives Reset low, high, low, high,
\* in that order, and leaves it high.
ResetLowHighLowHigh ==
    (op = "wake" /\ ~InReset) =>
        /\ pulse = <<0, 1, 0, 1>>
        /\ reset = 1

\* The record of a whole reset step.
ResetLog ==
    << Output("RESET", 1), Slept(ResetDelay), Output("RESET", 0), Slept(ResetDelay),
       Output("RESET", 1), Slept(ResetDelay) >>

\* C16, amended: the reset step drives Reset high, then low, then high, in
\* that order, each level followed by one delay of 200 ms, and leaves Reset
\* high when it finishes; no other step drives Reset.
ResetHighLowHigh ==
    /\ ResetDelay = 200
    /\ op # "wake" => pulse = <<>>
    /\ op = "wake" =>
          /\ IsPrefix(pulse, <<1, 0, 1>>)
          /\ pulse # <<>> => reset = pulse[Len(pulse)]
          /\ InReset => log = [n \in 1 .. 2 * Len(pulse) |-> ResetLog[n]]
          /\ ~InReset =>
                /\ pulse = <<1, 0, 1>>
                /\ reset = 1
                /\ IsPrefix(ResetLog, log)
                /\ \A n \in 7 .. Len(log) : log[n].line \notin {"RESET", "sleep"}
    /\ (life = "wake" /\ pc = "idle") => reset = 1

ResetPulseDone ==
    /\ op = "wake"
    /\ pc = "send"
    /\ sent = <<>>
    /\ pulse = <<1, 0, 1>>
    /\ log = ResetLog
    /\ reset = 1

\* C17: wake(), display(), clear() and sleep() return only from a handshake
\* wait that has read Busy, turning the LED on as the call's last hardware
\* action, and touch nothing once returned; the reset step reads Busy at no
\* point; in wake() all of the reset pulse is driven before the first send
\* touches DC, CS or the bus.
OperationsEndWithWait ==
    [][ /\ (pc # "idle" /\ pc' = "idle" /\ result' = "ok") =>
              /\ pc = "wait_led_on"
              /\ owed = 1 /\ owed' = 0
              /\ tick' = 0
              /\ "BUSY" \in used
              /\ led' = 1
              /\ UNCHANGED << mode, enable, reset, log >>
              /\ log[Len(log)] = Output("ENABLE", 1)
        /\ (pc = "idle" /\ pc' = "idle") => UNCHANGED << lineVars, log, used >>
        /\ InReset =>
              /\ "BUSY" \notin used /\ "BUSY" \notin used'
              /\ UNCHANGED << tick, state, led, owed >>
              /\ pc' \in {"reset_high", "reset_low", "reset_release", "send"}
        /\ (op = "wake" /\ pc # "idle"
               /\ used \cap {"MODE", "ENABLE", "SPI", "BUSY"} # {}) =>
              /\ pulse = <<1, 0, 1>>
              /\ pulse' = pulse
              /\ reset' = reset
      ]_vars

ClearEndedWithWait ==
    /\ Returned("clear")
    /\ Len(sent) = 3
    /\ owed = 0
    /\ led = 1
    /\ "BUSY" \in used

\* C18: display() and clear() make no check of the panel's state: whether the
\* lifecycle operation that returned last is wake(), sleep() or none, clear
\* puts its three transactions on the bus and display those of its image, and
\* neither ends in an error other than that of its argument or of the bus.
NoStateCheck ==
    \A last \in {"none", "wake", "sleep"} :
        life = last =>
            /\ op = "clear" =>
                  /\ IsPrefix(sent, ClearSends)
                  /\ result \in {Running, "ok", IOError}
                  /\ (pc = "idle" /\ result = "ok") => Len(sent) = 3
            /\ (op = "display" /\ ~MisSized(img)) =>
                  /\ Len(sent) <= 3
                  /\ \A n \in 1 .. Len(sent) : sent[n].command = <<16, 19, 18>>[n]
                  /\ Len(sent) >= 2 =>
                        LET enc == Encode(ImageOf(img), FALSE)
                        IN  sent[1].data = enc.data1 /\ sent[2].data = enc.data2
                  /\ result \in {Running, "ok", IOError}
                  /\ (pc = "idle" /\ result = "ok") => Len(sent) = 3

ClearedWhileAsleep ==
    /\ Returned("clear")
    /\ life = "sleep"
    /\ Len(sent) = 3
    /\ shown # NoShown

\* C20: construction sets up Enable, Reset, Mode and the LED as outputs and
\* Busy as input, turns the LED on and opens the bus, and does nothing else:
\* until the first call of wake, display, clear or sleep no byte is written,
\* Reset is not driven and Busy is not read.
ConstructionOnlyConfigures ==
    /\ op = "none" =>
          /\ pc = "idle"
          /\ pins = [ENABLE |-> "out", RESET |-> "out", BUSY |-> "in",
                     MODE |-> "out", LED |-> "out"]
          /\ bus = "open"
          /\ led = 1
          /\ used = {"LED"}
          /\ log = <<>> /\ sent = <<>> /\ events = <<>> /\ pulse = <<>>
          /\ owed = 0 /\ tick = 0
    /\ (used \cap {"SPI", "RESET", "BUSY", "MODE", "ENABLE"} # {} \/ log # <<>>) =>
          op \in {"wake", "display", "clear", "sleep"}

ConstructedPanelWorking ==
    /\ op = "none"
    /\ device = "alive"
    /\ busy = 0
    /\ reset = 0
    /\ enable = 0
    /\ used = {"LED"}

(***************************************************************************)
(* The demo adapter (src/modules/display/demo.py): the same four methods,   *)
(* with the panel replaced by the file res/demo.png.                        *)
(***************************************************************************)
DemoInit ==
    /\ op = "none"
    /\ pc = "idle"
    /\ result = "ok"
    /\ img = "none"
    /\ todo = <<>>
    /\ cmd = 0
    /\ data = <<>>
    /\ idx = 1
    /\ state = 0
    /\ mode = 0
    /\ enable = 1
    /\ reset = 1
    /\ led = 1
    /\ busy = 1
    /\ device = "alive"
    /\ events = <<>>
    /\ sent = <<>>
    /\ pulse = <<>>
    /\ owed = 0
    /\ tick = 0
    /\ encIn = EncNoInput
    /\ encBuf = EncNothing
    /\ encOut = EncNothing
    /\ encPc = "off"
    /\ log = <<>>
    /\ used = {}
    /\ life = "none"
    /\ shown = NoShown
    /\ pins = SetupPins
    /\ bus = "open"
    /\ gpiomem = TRUE
    /\ woken = FALSE
    /\ saved \in {NothingSaved, [src |-> "white", w |-> 300, h |-> 400]}
    /\ resdir = (saved # NothingSaved)
    /\ demoOp = "none"
    /\ demoArg = "none"
    /\ demoResult = "ok"
    /\ NoCalendar
    /\ NoOrganiser

\* All that belongs to the driver of the panel.
panelVars == << op, pc, result, img, todo, cmd, data, idx, state, mode, enable,
                reset, led, busy, device, events, sent, pulse, owed, tick,
                log, used, life, shown, setupVars >>

\* demo.py:33-42
DemoWake ==
    /\ woken' = TRUE
    /\ demoOp' = "wake"
    /\ demoArg' = "none"
    /\ demoResult' = "ok"
    /\ UNCHANGED << panelVars, encVars, calVars, orgVars, saved, resdir >>

\* demo.py:44-61  display: the image is rotated and saved when woken
DemoDisplay ==
    /\ \E name \in Images :
        LET image == ImageOf(name)
        IN  /\ demoArg' = name
            /\ IF woken
               THEN /\ resdir' = TRUE
                    /\ IF image.kind = "None"
                       THEN /\ demoResult' = "AttributeError"
                            /\ UNCHANGED saved
                       ELSE /\ demoResult' = "ok"
                            /\ saved' = [src |-> name, w |-> image.h, h |-> image.w]
               ELSE /\ demoResult' = "ok"
                    /\ UNCHANGED << saved, resdir >>
    /\ demoOp' = "display"
    /\ UNCHANGED << panelVars, encVars, calVars, orgVars, woken >>

\* demo.py:63-77  clear: a white image is saved when woken
DemoClear ==
    /\ IF woken
       THEN /\ resdir' = TRUE
            /\ saved' = [src |-> "white", w |-> 300, h |-> 400]
       ELSE UNCHANGED << saved, resdir >>
    /\ demoOp' = "clear"
    /\ demoArg' = "none"
    /\ demoResult' = "ok"
    /\ UNCHANGED << panelVars, encVars, calVars, orgVars, woken >>

\* demo.py:79-88
DemoSleep ==
    /\ woken' = FALSE
    /\ demoOp' = "sleep"
    /\ demoArg' = "none"
    /\ demoResult' = "ok"
    /\ UNCHANGED << panelVars, encVars, calVars, orgVars, saved, resdir >>

DemoNext == DemoWake \/ DemoDisplay \/ DemoClear \/ DemoSleep

DemoSpec == DemoInit /\ [][DemoNext]_vars

\* C19: the demo adapter, which tracks its state in _woken, signals an error
\* for a display() call made while it is not awake (before any wake(), or
\* after a sleep() with no later wake()).
DemoFlagsDisplayWhileAsleep ==
    (demoOp = "display" /\ ~woken) => demoResult # "ok"


(***************************************************************************)
(* The life of the module and of a Display instance: the check made when   *)
(* the module is loaded, construction, the public operations, teardown.    *)
(***************************************************************************)

\* No pin has been set up yet.
NoPins ==
    [ENABLE |-> "unset", RESET |-> "unset", BUSY |-> "unset", MODE |-> "unset",
     LED |-> "unset"]

\* eink.py:75  GPIO.cleanup() hands every channel the script set up back.
CleanedUp ==
    [ENABLE |-> "released", RESET |-> "released", BUSY |-> "released",
     MODE |-> "released", LED |-> "released"]

RuntimeError == "RuntimeError"
AttributeError == "AttributeError"

\* Before "import eink": nothing is set up, the lines are at any level, and
\* the gpiomem driver is there or not.
LifeInit ==
    /\ op = "none"
    /\ pc = "unloaded"
    /\ result = "ok"
    /\ img = "none"
    /\ todo = <<>>
    /\ cmd = 0
    /\ data = <<>>
    /\ idx = 1
    /\ state = 0
    /\ mode \in {0, 1}
    /\ enable \in {0, 1}
    /\ reset \in {0, 1}
    /\ led \in {0, 1}
    /\ busy \in {0, 1}
    /\ device = "alive"
    /\ events = <<>>
    /\ sent = <<>>
    /\ pulse = <<>>
    /\ owed = 0
    /\ tick = 0
    /\ encIn = EncNoInput
    /\ encBuf = EncNothing
    /\ encOut = EncNothing
    /\ encPc = "off"
    /\ log = <<>>
    /\ used = {}
    /\ life = "none"
    /\ shown = NoShown
    /\ pins = NoPins
    /\ bus = "none"
    /\ gpiomem \in BOOLEAN
    /\ woken = FALSE
    /\ saved = NothingSaved
    /\ resdir = FALSE
    /\ demoOp = "none"
    /\ demoArg = "none"
    /\ demoResult = "ok"
    /\ NoCalendar
    /\ NoOrganiser

\* What loading the module leaves alone.
loadVars == << op, img, todo, sendVars, state, lineVars, busy, device, events,
              sent, pulse, owed, tick, encVars, log, used, life, shown,
              setupVars, demoVars, calVars, orgVars >>

\* The module loaded without looking for the gpiomem driver.
LoadWithoutCheck ==
    /\ pc = "unloaded"
    /\ pc' = "loaded"
    /\ result' = "ok"
    /\ UNCHANGED loadVars

\* eink.py:342-344  the last statement of the module, run by the import.
Load ==
    /\ pc = "unloaded"
    /\ IF gpiomem
          THEN /\ pc' = "loaded"
               /\ result' = "ok"
          ELSE /\ pc' = "failed"
               /\ result' = RuntimeError
    /\ UNCHANGED loadVars

\* eink.py:50-65  Display(): the pins are set up, the LED is lit, the bus is
\* opened; spidev.SpiDev(0, 0) raises when /dev/spidev0.0 cannot be opened,
\* after the pins were set up.
Construct ==
    /\ pc = "loaded"
    /\ pins' = SetupPins
    /\ led' = 1
    /\ used' = {"LED"}
    /\ \E opened \in BOOLEAN :
          IF opened
             THEN /\ bus' = "open"
                  /\ pc' = "idle"
                  /\ result' = "ok"
             ELSE /\ bus' = "none"
                  /\ pc' = "half_built"
                  /\ result' = IOError
    /\ UNCHANGED << op, img, todo, sendVars, state, mode, enable, reset, busy,
                    device, events, sent, pulse, owed, tick, encVars, log, life,
                    shown, gpiomem, demoVars, calVars, orgVars >>

\* What teardown leaves alone.
delVars == << img, todo, sendVars, state, enable, busy, device, owed, tick,
             encVars, life, shown, gpiomem, demoVars, calVars, orgVars >>

\* eink.py:67-75  __del__ of an instance no call is running on: the bus is
\* closed, RST, DC and the LED are driven low, the pins are handed back.
Del ==
    /\ pc = "idle"
    /\ encPc = "off"
    /\ op' = "del"
    /\ pc' = "gone"
    /\ result' = "ok"
    /\ bus' = "closed"
    /\ reset' = 0
    /\ mode' = 0
    /\ led' = 0
    /\ pins' = CleanedUp
    /\ events' = <<>>
    /\ sent' = <<>>
    /\ pulse' = << 0 >>
    /\ log' = << Output("RESET", 0), Output("MODE", 0) >>
    /\ used' = {"SPI", "RESET", "MODE", "LED"}
    /\ UNCHANGED delVars

\* eink.py:67-70  __del__ of the instance whose __init__ raised at line 63:
\* it has no attribute _spi, so self._spi.close() raises AttributeError
\* (which the interpreter reports and drops) and the rest is not run.
DelHalfBuilt ==
    /\ pc = "half_built"
    /\ op' = "del"
    /\ pc' = "gone"
    /\ result' = AttributeError
    /\ events' = <<>>
    /\ sent' = <<>>
    /\ pulse' = <<>>
    /\ log' = <<>>
    /\ used' = {}
    /\ UNCHANGED << delVars, reset, mode, led, pins, bus >>

LifeNext ==
    \/ Load
    \/ Construct
    \/ Next
    \/ Del
    \/ DelHalfBuilt

LifeSpec == LifeInit /\ [][LifeNext]_vars

\* The bus has carried no byte in the current call.
NothingWritten ==
    /\ sent = <<>>
    /\ events = <<>>
    /\ \A n \in 1..Len(log) : log[n].line # "SPI"

\* No pin is configured as an output.
NoLineHeld == \A p \in DOMAIN pins : pins[p] # "out"

\* C21: once teardown has run, the bus is closed, Reset, Mode and the
\* Indicator are low, every GPIO line is released (none is left driven by
\* the driver), and teardown has written no byte to the bus.
TeardownReleasesLines ==
    pc = "gone" =>
        /\ bus = "closed"
        /\ reset = 0 /\ mode = 0 /\ led = 0
        /\ pins = CleanedUp
        /\ NoLineHeld
        /\ NothingWritten

\* The same for the teardown of an instance whose construction returned.
BuiltTeardownReleasesLines ==
    (pc = "gone" /\ result = "ok") =>
        /\ bus = "closed"
        /\ reset = 0 /\ mode = 0 /\ led = 0
        /\ pins = CleanedUp
        /\ NoLineHeld
        /\ NothingWritten
        /\ log = << Output("RESET", 0), Output("MODE", 0) >>

TornDownAfterWake == pc = "gone" /\ result = "ok" /\ life = "wake" /\ enable = 1

\* C22: when the gpiomem driver is absent, loading the module raises
\* RuntimeError and that is all that happens: no pin is ever set up or
\* driven, the bus is never opened, no instance is built (no operation and
\* no teardown runs); and only the absent driver makes the load fail.
AbsentDriverFailsLoad ==
    /\ ~gpiomem =>
          /\ pc \in {"unloaded", "failed"}
          /\ pins = NoPins
          /\ bus = "none"
          /\ used = {}
          /\ log = <<>> /\ sent = <<>> /\ events = <<>> /\ pulse = <<>>
          /\ op = "none"
          /\ (pc = "failed" => result = RuntimeError)
    /\ pc = "failed" => ~gpiomem
    /\ result = RuntimeError => pc = "failed"

LoadFailed == pc = "failed" /\ ~gpiomem /\ result = RuntimeError /\ led = 0


\* The driver is at a writebytes call of _send.
AtWrite == pc = "send_command" \/ (pc = "send_data" /\ idx <= Len(data))

\* All that a wake, a clear or a sleep puts on RST, DC, CS and the bus.
FullLog ==
    IF op = "wake" THEN FirstWakeLog
    ELSE IF op = "clear" THEN SendsLog(ClearSends)
    ELSE SendsLog(SleepSends)

\* The number of outputs and bytes of a display: three transactions, two of
\* them with a plane for payload.
DisplayLogLen == 2 * (PlaneSize + 5) + 5

\* C23: a write that fails ends the public operation at once with the I/O
\* error as its result: the step puts nothing on the bus and drives no line,
\* the rest of the payload and the commands still to send are dropped, and
\* until the caller makes another call nothing more is written (no retry, no
\* retransmission, none of the remaining bytes or commands); what was
\* written before the failure is a proper beginning of what the operation
\* sends; and a write that succeeds is followed by the next byte, never by
\* the same one.
NoRetryOnBusFailure ==
    [][ /\ (AtWrite /\ UNCHANGED << log, busy, device >>) =>
              /\ pc' = "idle"
              /\ result' = IOError
              /\ todo' = <<>> /\ data' = <<>>
              /\ UNCHANGED << sent, events, lineVars, op >>
              /\ IF op = "display"
                    THEN Len(log) < DisplayLogLen
                    ELSE IsPrefix(log, FullLog) /\ Len(log) < Len(FullLog)
        /\ (AtWrite /\ pc' = "idle") => (result' = IOError /\ log' = log)
        /\ (result = IOError /\ result' = IOError) =>
              (pc' = "idle" /\ UNCHANGED << log, sent, events, todo >>)
        /\ result' = IOError => pc' = "idle"
        /\ (pc = "send_command" /\ log' # log) =>
              (log' = Append(log, Written(cmd)) /\ pc' = "send_mode_data")
        /\ (pc = "send_data" /\ idx <= Len(data) /\ log' # log) =>
              (log' = Append(log, Written(data[idx])) /\ idx' = idx + 1)
      ]_vars

\* A sleep() whose second transaction failed at its data byte.
SleepFailedAtDataByte ==
    /\ op = "sleep" /\ pc = "idle" /\ result = IOError
    /\ Len(sent) = 1
    /\ log # <<>> /\ log[Len(log)] = Output("MODE", 1)


\* The images drawn with one of the four shade constants.
ShadeImages == {"black", "dark", "light", "white"}

\* The plane bits the claim gives for level n (0 black .. 3 white).
ClaimShadeBits(n) == << n \div 2, n % 2 >>

\* C24: SHADE has exactly four values, BLACK < DARK < LIGHT < WHITE, the top
\* two bits of the n-th value are n, _get_masks maps the four values to the
\* four distinct pairs (0,0), (0,1), (1,0), (1,1), and an image drawn with the
\* n-th shade is transmitted with every bit of plane A the first and every
\* bit of plane B the second bit of n.
ShadesQuantizeToOwnLevel ==
    /\ Len(SHADE) = 4
    /\ BLACK < DARK /\ DARK < LIGHT /\ LIGHT < WHITE
    /\ \A n \in 0 .. 3 :
          /\ SHADE[n + 1] \in 0 .. 255
          /\ SHADE[n + 1] \div 64 = n
          /\ GetMasks(SHADE[n + 1]) = ClaimShadeBits(n)
    /\ Cardinality({GetMasks(SHADE[n + 1]) : n \in 0 .. 3}) = 4
    /\ (op = "display" /\ Len(sent) >= 2 /\ img \in ShadeImages) =>
          LET v == ImageOf(img).px[<< 0, 0 >>]
              n == CHOOSE k \in 0 .. 3 : SHADE[k + 1] = v
              bits == ClaimShadeBits(n)
          IN  /\ Len(sent[1].data) = PlaneSize
              /\ Len(sent[2].data) = PlaneSize
              /\ AllBytes(sent[1].data, 255 * bits[1])
              /\ AllBytes(sent[2].data, 255 * bits[2])

DarkAndLightDisplayed ==
    /\ Returned("display") /\ Len(sent) = 3
    /\ \/ img = "dark" /\ sent[1].data[1] = 0 /\ sent[2].data[1] = 255
       \/ img = "light" /\ sent[1].data[1] = 255 /\ sent[2].data[1] = 0


(***************************************************************************)
(* The calendar wrapper (src/modules/calendar/google_calendar.py):          *)
(* list_events against a service that holds, for each calendar, its        *)
(* upcoming events in order of start.                                      *)
(***************************************************************************)

\* The most events a calendar holds.
MaxEvents == 2

CalendarIds == {"primary", "work"}
\* The days the events start on.
Dates == {1, 2}
Times == {"09:00"}
\* The UTC offsets the service renders start times with, in hours.
Offsets == {0, 1}

ValueError == "ValueError"
ResourceWarning == "ResourceWarning"

\* The "start" of an event resource: {"date": d} for an all-day event,
\* {"dateTime": "<date>T<time>:00+<offset>:00"} for a timed one, rendered in
\* the time zone of its calendar.
RawStarts(offset) ==
    {[date |-> d] : d \in Dates}
        \cup {[dateTime |-> [date |-> d, time |-> t, offset |-> offset]] :
                 d \in Dates, t \in Times}

\* google_calendar.py:142-168  _normalise_date_time
NormaliseDateTime(source) ==
    IF "date" \in DOMAIN source
       THEN [date |-> source.date, time |-> "N/A"]
       ELSE [date |-> source.dateTime.date, time |-> source.dateTime.time]
            \* source["dateTime"][:10] and [11:16]: the offset is cut off

\* google_calendar.py:29  _STATUS
STATUS(response) ==
    CASE response = "accepted" -> "yes"
      [] response = "declined" -> "no"
      [] response = "tentative" -> "maybe"
      [] response = "needsAction" -> "N/A"

\* google_calendar.py:136-138  the answer of the first attendee that is the
\* user, "yes" without one.
OwnStatus(source) ==
    LET attendees == IF "attendees" \in DOMAIN source THEN source.attendees ELSE <<>>
        own == {n \in 1 .. Len(attendees) : attendees[n].self}
    IN IF own = {} THEN "yes"
       ELSE STATUS(attendees[CHOOSE n \in own : \A m \in own : n <= m].responseStatus)

\* google_calendar.py:120-140  _normalise; id is the identity of the event
\* in the model, no key of the dictionary.
Normalise(source) ==
    [id |-> source.id,
     title |-> source.summary,
     start |-> NormaliseDateTime(source.start),
     end |-> NormaliseDateTime(source.end),
     location |-> IF "location" \in DOMAIN source THEN source.location ELSE "N/A",
     status |-> OwnStatus(source),
     recurring |-> "recurringEventId" \in DOMAIN source]

\* "HH:MM" as a number that compares as the string does.
Clock(time) == CASE time = "09:00" -> 900 [] OTHER -> 0

\* google_calendar.py:216-231  _event_sorter: "<date>T00:00:00" or
\* "<date>T<time>:00"; strings of one width, which compare as these numbers.
EventSorter(event) ==
    IF event.start.time = "N/A"
       THEN event.start.date * 2400
       ELSE event.start.date * 2400 + Clock(event.start.time)

\* sorted(list, key): e goes after the last element whose key is not greater.
RECURSIVE Insert(_, _)
Insert(sorted, e) ==
    IF sorted = <<>> THEN << e >>
    ELSE IF EventSorter(sorted[Len(sorted)]) <= EventSorter(e)
         THEN Append(sorted, e)
         ELSE Append(Insert(SubSeq(sorted, 1, Len(sorted) - 1), e), sorted[Len(sorted)])

RECURSIVE Sorted(_)
Sorted(list) ==
    IF list = <<>> THEN <<>>
    ELSE Insert(Sorted(SubSeq(list, 1, Len(list) - 1)), list[Len(list)])

\* sum(events.values(), [])
RECURSIVE Sum(_)
Sum(lists) == IF lists = <<>> THEN <<>> ELSE Head(lists) \o Sum(Tail(lists))

\* list[:n]
Take(list, n) == SubSeq(list, 1, IF n < Len(list) THEN n ELSE Len(list))

\* The instant an event starts at, as the service orders by it with
\* orderBy="startTime": an all-day event starts with its date.
StartOf(start) ==
    IF "date" \in DOMAIN start
       THEN start.date * 2400
       ELSE start.dateTime.date * 2400 + Clock(start.dateTime.time)
            - 100 * start.dateTime.offset

\* The event lists the service can hold for calendar c, rendered with the
\* offset of the calendar: at most MaxEvents events in order of start.
AgendasAt(c, offset) ==
    UNION {
        {[n \in 1 .. len |-> [id |-> << c, n >>, summary |-> "meeting",
                               start |-> starts[n], end |-> starts[n]]] :
            starts \in {s \in [1 .. len -> RawStarts(offset)] :
                           \A n \in 1 .. len - 1 : StartOf(s[n]) <= StartOf(s[n + 1])}}
        : len \in 0 .. MaxEvents}

Agendas(c) == UNION {AgendasAt(c, offset) : offset \in Offsets}

\* A Calendar instance with one or two calendars configured, no call made.
CalInit ==
    /\ op = "none"
    /\ pc = "idle"
    /\ result = "ok"
    /\ img = "none"
    /\ todo = <<>>
    /\ cmd = 0
    /\ data = <<>>
    /\ idx = 1
    /\ state = 0
    /\ mode = 0
    /\ enable = 0
    /\ reset = 0
    /\ led = 0
    /\ busy = 0
    /\ device = "alive"
    /\ events = <<>>
    /\ sent = <<>>
    /\ pulse = <<>>
    /\ owed = 0
    /\ tick = 0
    /\ encIn = EncNoInput
    /\ encBuf = EncNothing
    /\ encOut = EncNothing
    /\ encPc = "off"
    /\ log = <<>>
    /\ used = {}
    /\ life = "none"
    /\ shown = NoShown
    /\ pins = NoPins
    /\ bus = "none"
    /\ gpiomem = TRUE
    /\ woken = FALSE
    /\ saved = NothingSaved
    /\ resdir = FALSE
    /\ demoOp = "none"
    /\ demoArg = "none"
    /\ demoResult = "ok"
    /\ calendars \in {<< "primary" >>, << "primary", "work" >>}
    /\ agenda \in [CalendarIds -> Agendas("primary") \cup Agendas("work")]
    /\ \A c \in CalendarIds :
          /\ agenda[c] \in Agendas(c)
          /\ (\A k \in 1 .. Len(calendars) : calendars[k] # c) => agenda[c] = <<>>
    /\ calPc = "idle"
    /\ count = 0
    /\ fetched = <<>>
    /\ asked = <<>>
    /\ listed = [error |-> NoError, events |-> <<>>]
    /\ NoOrganiser

\* list_events returning the merged list unsorted.
ListEventsMergeUnsorted ==
    /\ calPc = "query"
    /\ Len(fetched) = Len(calendars)
    /\ listed' = [error |-> NoError, events |-> Take(Sum(fetched), count)]
    /\ calPc' = "idle"
    /\ UNCHANGED << panelVars, encVars, demoVars, orgVars, calendars, agenda, count, fetched,
                    asked >>

\* google_calendar.py:86-104  list_events entered: the checks of count
ListEvents ==
    /\ calPc = "idle"
    /\ \E n \in -1 .. MaxEvents + 1 :
          /\ count' = n
          /\ IF n < 0
                THEN /\ listed' = [error |-> ValueError, events |-> <<>>]
                     /\ calPc' = "idle"
                ELSE IF n < 1
                THEN /\ listed' = [error |-> NoError, events |-> <<>>]
                     /\ calPc' = "idle"
                ELSE /\ listed' = [error |-> Running, events |-> <<>>]
                     /\ calPc' = "query"
    /\ fetched' = <<>>
    /\ asked' = <<>>
    /\ UNCHANGED << panelVars, encVars, demoVars, orgVars, calendars, agenda >>

\* google_calendar.py:106-114  one pass of the for loop: the service answers
\* with the first maxResults upcoming events of the calendar in order of
\* start, or with an error, which _handle_error raises.
ListEventsQuery ==
    /\ calPc = "query"
    /\ Len(fetched) < Len(calendars)
    /\ LET calendar == calendars[Len(fetched) + 1]
           items == Take(agenda[calendar], count)
       IN  /\ asked' = Append(asked, [calendarId |-> calendar, maxResults |-> count])
           /\ \/ /\ fetched' = Append(fetched, [n \in 1 .. Len(items) |-> Normalise(items[n])])
                 /\ UNCHANGED << calPc, listed >>
              \/ /\ listed' = [error |-> ResourceWarning, events |-> <<>>]
                 /\ calPc' = "idle"
                 /\ UNCHANGED fetched
    /\ UNCHANGED << panelVars, encVars, demoVars, orgVars, calendars, agenda, count >>

\* google_calendar.py:118  sorted(sum(events.values(), []), key=_event_sorter)[:count]
ListEventsMerge ==
    /\ calPc = "query"
    /\ Len(fetched) = Len(calendars)
    /\ listed' = [error |-> NoError, events |-> Take(Sorted(Sum(fetched)), count)]
    /\ calPc' = "idle"
    /\ UNCHANGED << panelVars, encVars, demoVars, orgVars, calendars, agenda, count, fetched,
                    asked >>

CalNext == ListEvents \/ ListEventsQuery \/ ListEventsMerge

CalSpec == CalInit /\ [][CalNext]_vars

\* Every upcoming event of the configured calendars, normalised.
AllEvents ==
    UNION {{Normalise(agenda[calendars[k]][n]) : n \in 1 .. Len(agenda[calendars[k]])}
            : k \in 1 .. Len(calendars)}

Min(a, b) == IF a < b THEN a ELSE b

EncImage == Speck(encIn.v, encIn.x, encIn.y)

\* The 2-bit code at bit offset 6 - 2s (s = 0 first) of a packed byte.
CodeAt(byte, s) == (byte \div (2 ^ (6 - 2 * s))) % 4

\* The 2-bit code at position p of row j of the packed stream.
PackedCode(buffer, p, j) == CodeAt(buffer[(p + j * WIDTH) \div 4], p % 4)

\* The top two bits of the source pixel at column x of row j.
SourceCode(x, j) == EncImage.px[<< x, j >>] \div 64

Rows == 0 .. HEIGHT - 1
GroupColumns == {4 * g : g \in 0 .. WidthGroups - 1}

EncPacked == encPc \in {"packed", "split"} /\ encBuf.error = NoError

\* C26: the packed buffer has WIDTH*HEIGHT/4 bytes, and for every row j and
\* every column i that is a multiple of 4 the byte at index (i + j*WIDTH)/4
\* holds the top two bits of the four pixels sampled for the group, columns
\* i-3, i-2, i-1, i of row j in that order (a negative column counted from
\* the end of the row), at bit offsets 6, 4, 2, 0.
PackedByteLayout ==
    EncPacked =>
        LET buffer == encBuf.buffer
        IN  /\ DOMAIN buffer = 0 .. (WIDTH * HEIGHT) \div 4 - 1
            /\ \A j \in Rows : \A i \in GroupColumns :
                  LET byte == buffer[(i + j * WIDTH) \div 4]
                  IN  /\ byte \in 0 .. 255
                      /\ \A s \in 0 .. 3 :
                            CodeAt(byte, s) = SourceCode((i - 3 + s + WIDTH) % WIDTH, j)
                      /\ byte = 64 * CodeAt(byte, 0) + 16 * CodeAt(byte, 1)
                                + 4 * CodeAt(byte, 2) + CodeAt(byte, 3)

\* A Light pixel at column 2 of row 0 among Dark ones: second code of byte 1.
SecondSampleOfSecondGroup ==
    /\ encPc = "packed"
    /\ encIn.x = 2 /\ encIn.y = 0 /\ encIn.v = 130
    /\ encBuf.buffer[1] = 101
    /\ encBuf.buffer[0] = 85

\* C27: byte i of plane A and of plane B is built from the packed bytes 2i
\* and 2i+1: the k-th 2-bit code of the pair (k = 0..7, byte 2i first, highest
\* bits first) gives bit 7-k of plane A byte i (its high bit) and bit 7-k of
\* plane B byte i (its low bit), and the bytes stored are within 0..255:
\* the first code is shifted left 7 times, no bit further.
PlaneByteFromPackedPair ==
    (encPc = "split" /\ encBuf.error = NoError) =>
        LET buffer == encBuf.buffer
            planes == encOut.planes
        IN  /\ planes.error = NoError
            /\ Len(planes.data1) = PlaneSize
            /\ Len(planes.data2) = PlaneSize
            /\ \A i \in 0 .. PlaneSize - 1 :
                  /\ planes.data1[i + 1] \in 0 .. 255
                  /\ planes.data2[i + 1] \in 0 .. 255
                  /\ \A k \in 0 .. 7 :
                        LET code == CodeAt(buffer[2 * i + k \div 4], k % 4)
                        IN  /\ Bit(planes.data1[i + 1], 7 - k) = code \div 2
                            /\ Bit(planes.data2[i + 1], 7 - k) = code % 2

\* A Dark pixel among Light ones whose code is the sixth of its pair.
SixthCodeOfPair ==
    /\ encPc = "split"
    /\ encIn.v = 64 /\ encIn.x = 2 /\ encIn.y = HEIGHT - 1
    /\ encBuf.buffer[(WIDTH * (HEIGHT - 1)) \div 4 + 1] = 154
    /\ encOut.planes.data1[PlaneSize - WidthGroups \div 2 + 1] = 251
    /\ encOut.planes.data2[PlaneSize - WidthGroups \div 2 + 1] = 4

\* C28: in the first group of a row j >= 1 the three leading samples are
\* the last three pixels of row j-1, followed by pixel 0 of row j.
FirstGroupFromRowBefore ==
    EncPacked =>
        \A j \in Rows \ {0} :
            /\ \A s \in 0 .. 2 :
                  PackedCode(encBuf.buffer, s, j) = SourceCode(WIDTH - 3 + s, j - 1)
            /\ PackedCode(encBuf.buffer, 3, j) = SourceCode(0, j)

\* C28, amended: in the first group of every row j the three leading samples
\* are the last three pixels of the same row j, followed by pixel 0 of row j.
FirstGroupFromSameRow ==
    EncPacked =>
        \A j \in Rows :
            /\ \A s \in 0 .. 2 :
                  PackedCode(encBuf.buffer, s, j) = SourceCode(WIDTH - 3 + s, j)
            /\ PackedCode(encBuf.buffer, 3, j) = SourceCode(0, j)

\* A White pixel in the last column of the last row: third code of the
\* first byte of that row.
LastColumnInFirstGroup ==
    /\ encPc = "packed"
    /\ encIn.v = 200 /\ encIn.x = WIDTH - 1 /\ encIn.y = HEIGHT - 1
    /\ encBuf.buffer[(WIDTH * (HEIGHT - 1)) \div 4] = 12
    /\ encBuf.buffer[0] = 0

\* C29: for every row j and every position p with 3 <= p < WIDTH, the code
\* at position p of packed row j is that of source pixel (p-3, j); the
\* pixel at column 0 is encoded at position 3, and a pixel in columns
\* WIDTH-3..WIDTH-1 is encoded at none of the positions WIDTH-3..WIDTH-1 of
\* its row.
ThreeColumnsLate ==
    EncPacked =>
        LET buffer == encBuf.buffer
            mark == encIn.v \div 64
        IN  /\ \A j \in Rows : \A p \in 3 .. WIDTH - 1 :
                  PackedCode(buffer, p, j) = SourceCode(p - 3, j)
            /\ encIn.x = 0 =>
                  \A p \in 0 .. WIDTH - 1 :
                      (PackedCode(buffer, p, encIn.y) = mark) <=> (p = 3)
            /\ encIn.x >= WIDTH - 3 =>
                  \A p \in WIDTH - 3 .. WIDTH - 1 :
                      PackedCode(buffer, p, encIn.y) # mark

\* A Black pixel at column 0 of row 0: last code of byte 0.
FirstColumnAtPositionThree ==
    /\ encPc = "packed"
    /\ encIn.v = 0 /\ encIn.x = 0 /\ encIn.y = 0
    /\ encBuf.buffer[0] = 252
    /\ encBuf.buffer[1] = 255

\* C30: when _get_buffer has returned, each of its WIDTH*HEIGHT/4 passes has
\* stored one byte and every index 0..WIDTH*HEIGHT/4-1 of the packed buffer
\* holds a stored byte, so each index was assigned exactly once; when the
\* split has run, every index 0..WIDTH*HEIGHT/8-1 of plane A and of plane B
\* holds the one byte stored by pass i of the loop.  No element is left as
\* numpy.empty made it.
NoUninitialisedByte ==
    /\ HEIGHT * WidthGroups = BufferSize
    /\ EncPacked =>
          /\ DOMAIN encBuf.buffer = 0 .. BufferSize - 1
          /\ \A n \in 0 .. BufferSize - 1 :
                encBuf.buffer[n] # Uninit /\ encBuf.buffer[n] \in 0 .. 255
    /\ (encPc = "split" /\ encBuf.error = NoError) =>
          /\ encOut.planes.error = NoError
          /\ DOMAIN encOut.planes.data1 = 1 .. PlaneSize
          /\ DOMAIN encOut.planes.data2 = 1 .. PlaneSize
          /\ \A t \in 1 .. PlaneSize :
                /\ encOut.planes.data1[t] # Uninit /\ encOut.planes.data1[t] \in 0 .. 255
                /\ encOut.planes.data2[t] # Uninit /\ encOut.planes.data2[t] \in 0 .. 255

\* The planes of an image whose only Black pixel is the last one.
AllBytesAssigned ==
    /\ encPc = "split"
    /\ encIn.v = 0 /\ encIn.x = WIDTH - 1 /\ encIn.y = HEIGHT - 1
    /\ \A n \in 0 .. BufferSize - 1 : encBuf.buffer[n] >= 243
    /\ Len(encOut.planes.data1) = PlaneSize


\* C31: once a call has completed a transaction, Enable is high wherever the
\* driver is outside _send: in _wait, between two _send calls, and between
\* calls, also after a call whose _send was ended by a failed write.
EnableLowOnlyInSend ==
    (Len(sent) >= 1 /\ ~InSend) => enable = 1

\* The same at the places a _send that was not ended by a failure leaves.
EnableHighAfterCompletedSend ==
    (Len(sent) >= 1 /\ ~InSend /\ result # IOError) => enable = 1


\* ---------------------------------------------------------------------
\* The organiser: main.py and Organiser.update(), over the driver calls
\* wake(), display() and sleep() taken as whole calls.

\* The depth (in nested calls of update()) at which the interpreter refuses
\* one more call; 1000 frames in CPython, scaled down.
RecursionLimit == 3

KeyError == "KeyError"
TimeoutError == "TimeoutError"
RecursionError == "RecursionError"

\* The driver and the other modules at rest, no call in progress.
OthersIdle ==
    /\ op = "none"
    /\ pc = "idle"
    /\ result = "ok"
    /\ img = "none"
    /\ todo = <<>>
    /\ cmd = 0
    /\ data = <<>>
    /\ idx = 1
    /\ state = 0
    /\ mode = 0
    /\ enable = 0
    /\ reset = 0
    /\ led = 0
    /\ busy = 0
    /\ device = "alive"
    /\ events = <<>>
    /\ sent = <<>>
    /\ pulse = <<>>
    /\ owed = 0
    /\ tick = 0
    /\ encIn = EncNoInput
    /\ encBuf = EncNothing
    /\ encOut = EncNothing
    /\ encPc = "off"
    /\ log = <<>>
    /\ used = {}
    /\ life = "none"
    /\ shown = NoShown
    /\ pins = NoPins
    /\ bus = "none"
    /\ gpiomem = TRUE
    /\ woken = FALSE
    /\ saved = NothingSaved
    /\ resdir = FALSE
    /\ demoOp = "none"
    /\ demoArg = "none"
    /\ demoResult = "ok"
    /\ NoCalendar

\* Events as the calendar service returns them: an all-day event without
\* place or guests, and a timed one with a place that the user declined.
RawEvents ==
    {[id |-> << "primary", 1 >>, summary |-> "holiday",
      start |-> [date |-> 1], end |-> [date |-> 2]],
     [id |-> << "primary", 2 >>, summary |-> "meeting",
      start |-> [dateTime |-> [date |-> 1, time |-> "09:00", offset |-> 0]],
      end |-> [dateTime |-> [date |-> 1, time |-> "09:00", offset |-> 0]],
      location |-> "office",
      attendees |-> << [self |-> FALSE, responseStatus |-> "accepted"],
                       [self |-> TRUE, responseStatus |-> "declined"] >>]}

\* What list_events(50) can return to update(): nothing upcoming, or one
\* upcoming event.
OrgAgendas == {<<>>} \cup {<< Normalise(e) >> : e \in RawEvents}

\* organiser.py:230-252  the keys _draw_agenda reads of an event
AgendaFields == {"start", "status", "title", "description", "location"}

\* organiser.py:228-252  one pass of the loop of _draw_agenda: a key the
\* event does not have raises KeyError.
DrawEvent(event) ==
    IF /\ AgendaFields \subseteq DOMAIN event
       /\ {"date", "time"} \subseteq DOMAIN event.start
       THEN NoError
       ELSE KeyError

\* organiser.py:213-266  _draw_agenda: y starts at 70, so the loop reads the
\* first event of a non-empty agenda.
DrawAgenda(events_) ==
    IF events_ = <<>> THEN NoError ELSE DrawEvent(events_[1])

\* An execution of update() is in progress in thread t.
InUpdate(t) == upd[t].pc \notin {"off", "returned", "raised"}

Pool == Threads \ {"main"}

\* organiser.py:50-53  update() entered from outside: the first attempt.
FirstAttempt == [pc |-> "calendar", depth |-> 1, calls |-> <<>>, agenda |-> <<>>, error |-> NoError]

\* organiser.py:65-71  except BaseException: log, then sleep(300).
Caught(t, error) ==
    upd' = [upd EXCEPT ![t].pc = "waiting", ![t].error = error]

\* organiser.py:53  agenda = self._calendar.list_events(50); _handle_error
\* of the calendar raises ResourceWarning.
UpdateListEvents(t) ==
    /\ upd[t].pc = "calendar"
    /\ \/ \E a \in OrgAgendas :
             upd' = [upd EXCEPT ![t].pc = "weather", ![t].agenda = a]
       \/ Caught(t, ResourceWarning)
    /\ UNCHANGED << panelVars, encVars, demoVars, calVars, splitVars, panel, mainPc, skipped >>

\* organiser.py:54  forecast = self._weather.get_forecast()
UpdateGetForecast(t) ==
    /\ upd[t].pc = "weather"
    /\ \/ upd' = [upd EXCEPT ![t].pc = "draw"]
       \/ Caught(t, TimeoutError)
    /\ UNCHANGED << panelVars, encVars, demoVars, calVars, splitVars, panel, mainPc, skipped >>

\* organiser.py:56-61  the screen is drawn: _draw_forecast_bar raises
\* ValueError for a weather id it has no icon for, _draw_agenda reads the
\* events.
UpdateDraw(t) ==
    /\ upd[t].pc = "draw"
    /\ \/ Caught(t, ValueError)
       \/ IF DrawAgenda(upd[t].agenda) = NoError
             THEN upd' = [upd EXCEPT ![t].pc = "wake"]
             ELSE Caught(t, DrawAgenda(upd[t].agenda))
    /\ UNCHANGED << panelVars, encVars, demoVars, calVars, splitVars, panel, mainPc, skipped >>

\* organiser.py:275  self._display.wake(): the call returns, or a write on
\* the bus fails in it and the panel has part of the wake sequence.
UpdateWake(t) ==
    /\ upd[t].pc = "wake"
    /\ \/ /\ upd' = [upd EXCEPT ![t].pc = "display", ![t].calls = Append(@, "wake")]
          /\ panel' = "awake"
       \/ /\ Caught(t, IOError)
          /\ panel' = "unknown"
    /\ UNCHANGED << panelVars, encVars, demoVars, calVars, splitVars, mainPc, skipped >>

\* organiser.py:275  .display(image.transpose(Image.ROTATE_90)): the call
\* returns, or a write on the bus fails in it.
UpdateDisplay(t) ==
    /\ upd[t].pc = "display"
    /\ \/ upd' = [upd EXCEPT ![t].pc = "sleep", ![t].calls = Append(@, "display")]
       \/ Caught(t, IOError)
    /\ UNCHANGED << panelVars, encVars, demoVars, calVars, splitVars, panel, mainPc, skipped >>

\* organiser.py:275  .sleep(), after which update() returns through every
\* frame of the attempts before; or a write on the bus fails in it.
UpdateSleep(t) ==
    /\ upd[t].pc = "sleep"
    /\ \/ /\ upd' = [upd EXCEPT ![t].pc = "returned", ![t].calls = Append(@, "sleep")]
          /\ panel' = "asleep"
       \/ /\ Caught(t, IOError)
          /\ panel' = "unknown"
    /\ UNCHANGED << panelVars, encVars, demoVars, calVars, splitVars, mainPc, skipped >>

\* A retry that goes back to the display() call alone.
UpdateRetryShowOnly(t) ==
    /\ upd[t].pc = "waiting"
    /\ upd[t].depth < RecursionLimit
    /\ upd' = [upd EXCEPT ![t].pc = IF upd[t].calls = <<>> THEN "calendar" ELSE "display",
                          ![t].depth = @ + 1, ![t].calls = <<>>,
                          ![t].agenda = IF upd[t].calls = <<>> THEN <<>> ELSE @,
                          ![t].error = NoError]
    /\ UNCHANGED << panelVars, encVars, demoVars, calVars, splitVars, panel, mainPc, skipped >>

\* organiser.py:71-73  sleep(300) is over, self.update(): one more frame and
\* a new attempt, or RecursionError at the limit, raised in the handler and
\* so out of every frame below.
UpdateRetry(t) ==
    /\ upd[t].pc = "waiting"
    /\ IF upd[t].depth < RecursionLimit
          THEN upd' = [upd EXCEPT ![t] = [FirstAttempt EXCEPT !.depth = upd[t].depth + 1]]
          ELSE upd' = [upd EXCEPT ![t].pc = "raised", ![t].error = RecursionError]
    /\ UNCHANGED << panelVars, encVars, demoVars, calVars, splitVars, panel, mainPc, skipped >>

\* main.py:38-39  organiser = Organiser(); organiser.update()
MainUpdate ==
    /\ mainPc = "init"
    /\ mainPc' = "update"
    /\ upd' = [upd EXCEPT !["main"] = FirstAttempt]
    /\ UNCHANGED << panelVars, encVars, demoVars, calVars, splitVars, panel, skipped >>

\* main.py:41-46  the first update returned: add_job, scheduler.start()
MainSchedule ==
    /\ mainPc = "update"
    /\ upd["main"].pc = "returned"
    /\ mainPc' = "scheduling"
    /\ UNCHANGED << panelVars, encVars, demoVars, calVars, splitVars, upd, panel, skipped >>

\* main.py:39  the first update raised: nothing catches it, the program ends.
MainCrash ==
    /\ mainPc = "update"
    /\ upd["main"].pc = "raised"
    /\ mainPc' = "crashed"
    /\ UNCHANGED << panelVars, encVars, demoVars, calVars, splitVars, upd, panel, skipped >>

\* The cron trigger starting the job on every firing, whatever is running.
CronFireNoLimit ==
    /\ mainPc = "scheduling"
    /\ \E t \in Pool :
          /\ ~InUpdate(t)
          /\ upd' = [upd EXCEPT ![t] = FirstAttempt]
    /\ UNCHANGED << panelVars, encVars, demoVars, calVars, splitVars, panel, mainPc, skipped >>

\* main.py:42-43  the cron trigger fires (minute */15): add_job was given no
\* max_instances, and the scheduler's default of 1 skips the run while an
\* instance of the job is running; otherwise a worker of the pool runs it.
CronFire ==
    /\ mainPc = "scheduling"
    /\ IF \E t \in Pool : InUpdate(t)
          THEN /\ skipped' = TRUE
               /\ UNCHANGED upd
          ELSE /\ \E t \in Pool : upd' = [upd EXCEPT ![t] = FirstAttempt]
               /\ UNCHANGED skipped
    /\ UNCHANGED << panelVars, encVars, demoVars, calVars, splitVars, panel, mainPc >>

OrgInit ==
    /\ OthersIdle
    /\ NoOrganiser

OrgNext ==
    \/ MainUpdate
    \/ MainSchedule
    \/ MainCrash
    \/ CronFire
    \/ \E t \in Threads :
          \/ UpdateListEvents(t)
          \/ UpdateGetForecast(t)
          \/ UpdateDraw(t)
          \/ UpdateWake(t)
          \/ UpdateDisplay(t)
          \/ UpdateSleep(t)
          \/ UpdateRetry(t)

OrgSpec == OrgInit /\ [][OrgNext]_vars


\* The driver calls of the attempt of thread t, in order.
CallsOf(t) == upd[t].calls

\* C32: in every attempt, display() is called only right after the wake() of
\* that attempt returned, with no sleep() between them, and on a panel whose
\* last lifecycle command is Wake.
DisplayFollowsWake ==
    \A t \in Threads :
        /\ upd[t].pc = "display" => (CallsOf(t) = << "wake" >> /\ panel = "awake")
        /\ \A n \in 1 .. Len(CallsOf(t)) :
              CallsOf(t)[n] = "display" => (n > 1 /\ CallsOf(t)[n - 1] = "wake")

\* display() has returned in an attempt that follows a failed one.
DisplayedOnRetry ==
    \E t \in Threads : upd[t].depth > 1 /\ CallsOf(t) = << "wake", "display" >>

\* No execution of update() is between its wake() and the end of its sleep().
NoRefreshInProgress == \A t \in Threads : upd[t].pc \notin {"display", "sleep"}

\* C33: outside the wake/display/sleep sequence of an attempt (update() has
\* returned, waits before a retry, or works on the next screen) the panel is
\* not awake.
PanelAsleepBetweenRefreshes ==
    NoRefreshInProgress => panel # "awake"

\* C34: update() never ends by raising.
UpdateNeverRaises ==
    \A t \in Threads : upd[t].pc # "raised"

\* Below the limit of the interpreter: every failed attempt is followed by a
\* wait, and update() returns only from an attempt that ended with sleep().
UpdateReturnsAfterSleep ==
    \A t \in Threads :
        /\ upd[t].pc = "returned" => CallsOf(t) = << "wake", "display", "sleep" >>
        /\ upd[t].pc = "raised" => (upd[t].depth = RecursionLimit /\ upd[t].error = RecursionError)

\* C38: executions of update() never overlap: the first one is over before
\* the scheduler starts, and the scheduler runs one at a time, so at most
\* one thread is in update() and in a wake/display/sleep sequence.
UpdatesSerialized ==
    /\ Cardinality({t \in Threads : InUpdate(t)}) <= 1
    /\ mainPc \in {"init", "update", "crashed"} => \A t \in Pool : upd[t].pc = "off"
    /\ mainPc = "scheduling" => upd["main"].pc = "returned"

\* The trigger fired while an update was waiting before a retry, and the
\* run was skipped.
FiringSkippedDuringRetryWait ==
    /\ skipped
    /\ \E t \in Pool : upd[t].pc = "waiting"


\* The events list_events gave to the attempts in progress.
AgendaEvents ==
    UNION {{upd[t].agenda[n] : n \in 1 .. Len(upd[t].agenda)} : t \in Threads}

\* C37: every event list_events returns has the keys _draw_agenda reads, with
\* None (and no other mark) where the event has no value, and drawing the
\* agenda never raises KeyError.
AgendaRecordsDrawable ==
    /\ \A e \in AgendaEvents :
          /\ AgendaFields \subseteq DOMAIN e
          /\ {"date", "time"} \subseteq DOMAIN e.start
          /\ e.start.time # "N/A"
          /\ e.location # "N/A"
          /\ e.status # "N/A"
    /\ \A t \in Threads : upd[t].error # KeyError

\* Drawing fails on a key only with an event on the agenda, and an update
\* that got to the panel had none.
OnlyEmptyAgendaShown ==
    \A t \in Threads :
        /\ upd[t].error = KeyError => upd[t].agenda # <<>>
        /\ upd[t].pc \in {"wake", "display", "sleep", "returned"} => upd[t].agenda = <<>>


\* ---------------------------------------------------------------------
\* Organiser._split: a text is its words, a word is its rendered width
\* (0 for the empty word two spaces in a row give).

\* The most words of a text.
MaxWords == 3

\* The rendered widths of a word, and of the space between two words.
WordWidths == {0, 1, 2, 3}
SpaceWidth == 1

\* The maximum lengths asked for: a word of width 3 is wider than the first.
Lengths == {2, 3}

Texts == UNION {[1 .. n -> WordWidths] : n \in 1 .. MaxWords}

\* organiser.py:294  self._font[size].getsize(" ".join(ws))[0]
RECURSIVE Width(_)
Width(ws) ==
    IF ws = <<>> THEN 0
    ELSE IF Len(ws) = 1 THEN ws[1]
    ELSE Width(SubSeq(ws, 1, Len(ws) - 1)) + SpaceWidth + ws[Len(ws)]

\* list[n:]
Drop(list, n) == SubSeq(list, (IF n < Len(list) THEN n ELSE Len(list)) + 1, Len(list))

\* The lines the model keeps: a call that returns has appended at most one
\* line per word, and the lines after that many are taken as appended and
\* not recorded.
LinesKept == Len(splitIn.text) + 1

\* organiser.py:287-289  _split(text, size, length) entered
SplitTextInit ==
    /\ OthersIdle
    /\ upd = [t \in Threads |-> NoUpdate]
    /\ panel = "none"
    /\ mainPc = "init"
    /\ skipped = FALSE
    /\ splitIn \in {[text |-> t, length |-> l] : t \in Texts, l \in Lengths}
    /\ words = splitIn.text
    /\ lines = <<>>
    /\ index = 0
    /\ splitPc = "loop"

\* One pass of the loop that breaks the line as soon as the width reaches
\* the length.
SplitTextPassBreakEarly ==
    /\ splitPc = "loop"
    /\ Len(words) > 0
    /\ LET i == index + 1
       IN IF Width(Take(words, i)) >= splitIn.length \/ i > Len(words)
             THEN /\ lines' = IF Len(lines) < LinesKept
                                 THEN Append(lines, Take(words, i - 1)) ELSE lines
                  /\ words' = Drop(words, i - 1)
                  /\ index' = 0
             ELSE /\ index' = i
                  /\ UNCHANGED << words, lines >>
    /\ UNCHANGED << panelVars, encVars, demoVars, calVars, mainVars, splitIn, splitPc >>

\* organiser.py:292-297  one pass of the while loop
SplitTextPass ==
    /\ splitPc = "loop"
    /\ Len(words) > 0
    /\ LET i == index + 1
       IN IF Width(Take(words, i)) > splitIn.length \/ i > Len(words)
             THEN /\ lines' = IF Len(lines) < LinesKept
                                 THEN Append(lines, Take(words, i - 1)) ELSE lines
                  /\ words' = Drop(words, i - 1)
                  /\ index' = 0
             ELSE /\ index' = i
                  /\ UNCHANGED << words, lines >>
    /\ UNCHANGED << panelVars, encVars, demoVars, calVars, mainVars, splitIn, splitPc >>

\* organiser.py:292, 299  the loop ends, "\n".join(lines) is returned
SplitTextReturn ==
    /\ splitPc = "loop"
    /\ Len(words) = 0
    /\ splitPc' = "done"
    /\ UNCHANGED << panelVars, encVars, demoVars, calVars, mainVars, splitIn, words, lines, index >>

SplitTextNext == SplitTextPass \/ SplitTextReturn

SplitTextSpec == SplitTextInit /\ [][SplitTextNext]_vars

\* The interpreter keeps running the call.
SplitTextLive == SplitTextSpec /\ WF_vars(SplitTextNext)

\* The words of the lines read in order.
RECURSIVE Flatten(_)
Flatten(ls) == IF ls = <<>> THEN <<>> ELSE Head(ls) \o Flatten(Tail(ls))

\* C35: _split terminates for every text and length: each line it appends
\* takes at least one of the words that are left, so a call never has more
\* lines than the text has words, and the words of the lines it returns are
\* the words of the text in order.
SplitConsumesWords ==
    /\ Len(lines) <= Len(splitIn.text)
    /\ splitPc = "done" => Flatten(lines) = splitIn.text

\* No word of the text is wider than the length.
WordsFit == \A n \in 1 .. Len(splitIn.text) : splitIn.text[n] <= splitIn.length

\* A call with a text without a word wider than the length returns, and
\* returns the words of the text.
SplitTerminatesWhenWordsFit ==
    /\ WordsFit => <>(splitPc = "done")
    /\ [](splitPc = "done" => Flatten(lines) = splitIn.text)

\* C36: no line of the string _split returns is wider than the length, and
\* every line but the last is followed by a word that would not have fitted
\* on it.
LinesFitAndAreLongest ==
    splitPc = "done" =>
        \A k \in 1 .. Len(lines) :
            /\ Width(lines[k]) <= splitIn.length
            /\ k < Len(lines) =>
                  /\ lines[k + 1] # <<>>
                  /\ Width(Append(lines[k], lines[k + 1][1])) > splitIn.length

\* _split returned two lines, the first of two words that fill the length.
SplitIntoTwoLines ==
    /\ splitPc = "done"
    /\ Len(lines) = 2
    /\ Len(lines[1]) = 2
    /\ Width(lines[1]) = splitIn.length

=============================================================================
